---- MODULE Spec2Model ----
(***************************************************************************)
(* Model of the survey-report parsing pipeline (pipeline/src/parser).      *)
(*                                                                         *)
(* The pipeline is a set of pure, line-oriented parsers called by a thin   *)
(* orchestrator.  Each parser is modelled as its own state machine over    *)
(* its own group of variables; a specification per parser starts the      *)
(* other groups idle and leaves them unchanged.                            *)
(*                                                                         *)
(*   SpecDetect : format dispatch (utils.ts main, tables.ts detectFormat)  *)
(*   SpecAssign : charts.ts assignCategories                               *)
(*   Spec5Point : tables.ts parseMeanRows5Point                            *)
(*   SpecXls    : xls.ts findUnitSheetIds / parseXlsFile                   *)
(*   SpecDemo   : charts.ts parseDemographics                              *)
(*                                                                         *)
(* Text is a string and every regular expression of the code is an         *)
(* operator over its characters.  Decimal numbers are integers scaled by   *)
(* 100 (4.52 is 452).                                                      *)
(***************************************************************************)
EXTENDS Integers, Sequences, FiniteSets, TLC

VARIABLES
    \* format dispatch
    localPath, text, format,
    \* assignCategories
    pcts, meanValue, slots, acPc,
    \* parseMeanRows5Point
    lines, i, rows, currentArea, historicalYears, columnLayout, inTable,
    pendingQuestionText, doneWithTables, p5Pc,
    \* findUnitSheetIds / parseXlsFile
    sheetNames, leafIds, results, wsIdx, xlsPc,
    \* parseDemographics
    demoLines, demoIdx, inBirthYear, inChildGender, inParentGender,
    demographics, demoPc,
    \* parseResponseDistributions
    distLines, meansMap, distIdx, inStackedBarSection, distResults, seen, distPc,
    \* cleanQuestionText
    rawText, cleanedOnce, cleanedTwice, cleanPc,
    \* parseMeanRowsScandinfo
    scLines, scIdx, scRows, scCurrentArea, scPending, inNkiSection, pastFirstNki, inQuestionSection, sectionCount, scPc,
    \* parseTables, called on one document after another
    documents, callNo, outputs,
    \* main: the loop over the selected reports
    reports, rowIdx, parsedCount, errors, unitReports, mainPc,
    \* normalize
    nValue, nYear, nText, nCategory, normalized, normPc,
    \* parseMeanRows7Point
    p7Lines, p7Idx, p7Rows, p7Area, p7Years, numYearColumns, hasGrColumn, p7Pending, inDataSection, sawResultatHeader, p7Pc,
    \* download and parse stages over the table pdf_reports; parseSinglePdf
    pdfReports, storedRows, stage, runNo, forceFlag, selectedIds, rowPos, pdfPc, layoutSplits, coordSplits, extractorCalls,
    \* parseSheet
    shData, shI, shMeans, shResult, shPc,
    \* downloadPdf
    dlHistory, dlAttempt, dlOutcome, dlBody, dlPc

detectVars == <<localPath, text, format>>
assignVars == <<pcts, meanValue, slots, acPc>>
p5Vars == <<lines, i, rows, currentArea, historicalYears, columnLayout, inTable,
            pendingQuestionText, doneWithTables, p5Pc>>
xlsVars == <<sheetNames, leafIds, results, wsIdx, xlsPc>>
demoVars == <<demoLines, demoIdx, inBirthYear, inChildGender, inParentGender,
              demographics, demoPc>>
distVars == <<distLines, meansMap, distIdx, inStackedBarSection, distResults, seen, distPc>>
cleanVars == <<rawText, cleanedOnce, cleanedTwice, cleanPc>>
scandVars == <<scLines, scIdx, scRows, scCurrentArea, scPending, inNkiSection, pastFirstNki, inQuestionSection, sectionCount, scPc>>
sessionVars == <<documents, callNo, outputs>>
mainVars == <<reports, rowIdx, parsedCount, errors, unitReports, mainPc>>
normVars == <<nValue, nYear, nText, nCategory, normalized, normPc>>
p7Vars == <<p7Lines, p7Idx, p7Rows, p7Area, p7Years, numYearColumns, hasGrColumn, p7Pending, inDataSection, sawResultatHeader, p7Pc>>
dbVars == <<pdfReports, storedRows, stage, runNo, forceFlag, selectedIds, rowPos, pdfPc, layoutSplits, coordSplits, extractorCalls>>
sheetVars == <<shData, shI, shMeans, shResult, shPc>>
dlVars == <<dlHistory, dlAttempt, dlOutcome, dlBody, dlPc>>
vars == <<detectVars, assignVars, p5Vars, xlsVars, demoVars, distVars, cleanVars, scandVars, sessionVars, mainVars, normVars, p7Vars, dbVars, sheetVars, dlVars>>

\* what each component leaves alone
notDetect == <<assignVars, p5Vars, xlsVars, demoVars, distVars, cleanVars, scandVars, sessionVars, mainVars, normVars, p7Vars, dbVars, sheetVars, dlVars>>
notAssign == <<detectVars, p5Vars, xlsVars, demoVars, distVars, cleanVars, scandVars, sessionVars, mainVars, normVars, p7Vars, dbVars, sheetVars, dlVars>>
notP5 == <<detectVars, assignVars, xlsVars, demoVars, distVars, cleanVars, scandVars, sessionVars, mainVars, normVars, p7Vars, dbVars, sheetVars, dlVars>>
notXls == <<detectVars, assignVars, p5Vars, demoVars, distVars, cleanVars, scandVars, sessionVars, mainVars, normVars, p7Vars, dbVars, sheetVars, dlVars>>
notDemo == <<detectVars, assignVars, p5Vars, xlsVars, distVars, cleanVars, scandVars, sessionVars, mainVars, normVars, p7Vars, dbVars, sheetVars, dlVars>>
notDist == <<detectVars, assignVars, p5Vars, xlsVars, demoVars, cleanVars, scandVars, sessionVars, mainVars, normVars, p7Vars, dbVars, sheetVars, dlVars>>
notClean == <<detectVars, assignVars, p5Vars, xlsVars, demoVars, distVars, scandVars, sessionVars, mainVars, normVars, p7Vars, dbVars, sheetVars, dlVars>>
notScand == <<detectVars, assignVars, p5Vars, xlsVars, demoVars, distVars, cleanVars, sessionVars, mainVars, normVars, p7Vars, dbVars, sheetVars, dlVars>>
notSession == <<detectVars, assignVars, p5Vars, xlsVars, demoVars, distVars, cleanVars, scandVars, mainVars, normVars, p7Vars, dbVars, sheetVars, dlVars>>
notMain == <<detectVars, assignVars, p5Vars, xlsVars, demoVars, distVars, cleanVars, scandVars, sessionVars, normVars, p7Vars, dbVars, sheetVars, dlVars>>
notNorm == <<detectVars, assignVars, p5Vars, xlsVars, demoVars, distVars, cleanVars, scandVars, sessionVars, mainVars, p7Vars, dbVars, sheetVars, dlVars>>
notTables == <<detectVars, assignVars, xlsVars, demoVars, distVars, cleanVars, mainVars, normVars, p7Vars, dbVars, sheetVars, dlVars>>
notP7 == <<detectVars, assignVars, p5Vars, xlsVars, demoVars, distVars, cleanVars, scandVars, sessionVars, mainVars, normVars, dbVars, sheetVars, dlVars>>
notDb == <<detectVars, assignVars, p5Vars, xlsVars, demoVars, distVars, cleanVars, scandVars, sessionVars, mainVars, normVars, p7Vars, sheetVars, dlVars>>
notSheet == <<detectVars, assignVars, p5Vars, xlsVars, demoVars, distVars, cleanVars, scandVars, sessionVars, mainVars, normVars, p7Vars, dbVars, dlVars>>
notDl == <<detectVars, assignVars, p5Vars, xlsVars, demoVars, distVars, cleanVars, scandVars, sessionVars, mainVars, normVars, p7Vars, dbVars, sheetVars>>

\* The absent value (JavaScript null / undefined) of a numeric field.
Null == -1

----------------------------------------------------------------------------
\* Generic helpers

RECURSIVE SeqsUpTo(_, _)
SeqsUpTo(S, n) ==
    IF n = 0 THEN {<<>>}
    ELSE LET shorter == SeqsUpTo(S, n - 1)
         IN  shorter \cup {Append(s, x) : s \in {t \in shorter : Len(t) = n - 1}, x \in S}

Min(a, b) == IF a < b THEN a ELSE b
Max(a, b) == IF a > b THEN a ELSE b
Abs(a) == IF a < 0 THEN 0 - a ELSE a

\* Text is a string; CharAt(s, k) is its k-th character (1-based), "" past
\* either end.
CharAt(s, k) == IF k >= 1 /\ k <= Len(s) THEN SubSeq(s, k, k) ELSE ""

\* Strings hold ASCII characters only. The letters å ä ö Å Ä Ö are written
\* } { ^ ] [ @ and the character U+2026 (horizontal ellipsis) is written ~ :
\* "G^teborg" is Göteborg, "f^delse}r" is födelseår.
Ellipsis == "~"

UpperLetters == "ABCDEFGHIJKLMNOPQRSTUVWXYZ][@"
LowerLetters == "abcdefghijklmnopqrstuvwxyz}{^"
Digits == "0123456789"

\* String.prototype.indexOf, 1-based; 0 when absent
IndexOf(s, needle) ==
    LET hits == {k \in 1..(Len(s) - Len(needle) + 1) :
                    SubSeq(s, k, k + Len(needle) - 1) = needle}
    IN  IF hits = {} THEN 0 ELSE CHOOSE k \in hits : \A h \in hits : k <= h

\* String.prototype.includes
Includes(s, needle) == IndexOf(s, needle) # 0

IsDigit(c) == c # "" /\ Includes(Digits, c)
\* /[a-zåäö]/ and /[A-ZÅÄÖ]/
IsLower(c) == c # "" /\ Includes(LowerLetters, c)
IsUpper(c) == c # "" /\ Includes(UpperLetters, c)
\* \w of a JavaScript regular expression: ASCII letters, digits, underscore
IsWordChar(c) ==
    /\ c # ""
    /\ \/ Includes(SubSeq(LowerLetters, 1, 26), c)
       \/ Includes(SubSeq(UpperLetters, 1, 26), c)
       \/ Includes(Digits, c)
       \/ c = "_"
\* \s
IsSpace(c) == c = " "

\* String.prototype.toLowerCase
LowerChar(c) ==
    IF IsUpper(c) THEN CharAt(LowerLetters, IndexOf(UpperLetters, c)) ELSE c

RECURSIVE ToLower(_)
ToLower(s) ==
    IF s = "" THEN "" ELSE LowerChar(CharAt(s, 1)) \o ToLower(SubSeq(s, 2, Len(s)))

\* String.prototype.endsWith / startsWith / trim
EndsWith(s, suffix) ==
    /\ Len(suffix) <= Len(s)
    /\ SubSeq(s, Len(s) - Len(suffix) + 1, Len(s)) = suffix

StartsWith(s, prefix) ==
    /\ Len(prefix) <= Len(s)
    /\ SubSeq(s, 1, Len(prefix)) = prefix

RECURSIVE TrimStart(_)
TrimStart(s) ==
    IF s # "" /\ IsSpace(CharAt(s, 1)) THEN TrimStart(SubSeq(s, 2, Len(s))) ELSE s

RECURSIVE TrimEnd(_)
TrimEnd(s) ==
    IF s # "" /\ IsSpace(CharAt(s, Len(s))) THEN TrimEnd(SubSeq(s, 1, Len(s) - 1)) ELSE s

Trim(s) == TrimEnd(TrimStart(s))

\* parseInt / parseFloat of one decimal digit
DigitValue(c) == IndexOf(Digits, c) - 1

----------------------------------------------------------------------------
\* Idle states of the parsers a specification does not exercise

DetectIdle == localPath = "" /\ text = <<>> /\ format = "none"
AssignIdle == pcts = <<>> /\ meanValue = Null /\ slots = <<>> /\ acPc = "idle"
P5Idle ==
    /\ lines = <<>> /\ i = 0 /\ rows = <<>> /\ currentArea = ""
    /\ historicalYears = <<>> /\ columnLayout = "gr-first" /\ inTable = FALSE
    /\ pendingQuestionText = "" /\ doneWithTables = FALSE /\ p5Pc = "idle"
XlsIdle ==
    sheetNames = <<>> /\ leafIds = {} /\ results = <<>> /\ wsIdx = 0 /\ xlsPc = "idle"
DemoIdle ==
    /\ demoLines = <<>> /\ demoIdx = 0
    /\ inBirthYear = FALSE /\ inChildGender = FALSE /\ inParentGender = FALSE
    /\ demographics = [birthYearDistribution |-> <<>>, childGenderDistribution |-> <<>>,
                       parentGenderDistribution |-> <<>>]
    /\ demoPc = "idle"
DistIdle ==
    /\ distLines = <<>> /\ meansMap = <<>> /\ distIdx = 0
    /\ inStackedBarSection = FALSE /\ distResults = <<>> /\ seen = {}
    /\ distPc = "idle"

CleanIdle ==
    rawText = "" /\ cleanedOnce = "" /\ cleanedTwice = "" /\ cleanPc = "idle"

ScandIdle ==
    /\ scLines = <<>> /\ scIdx = 0 /\ scRows = <<>> /\ scCurrentArea = "" /\ scPending = ""
    /\ inNkiSection = FALSE /\ pastFirstNki = FALSE /\ inQuestionSection = FALSE
    /\ sectionCount = 0 /\ scPc = "idle"

SessionIdle ==
    /\ documents = <<>> /\ callNo = 0 /\ outputs = <<>>

MainIdle ==
    /\ reports = <<>> /\ rowIdx = 0 /\ parsedCount = 0 /\ errors = 0 /\ unitReports = 0
    /\ mainPc = "idle"

NormIdle ==
    /\ nValue = Null /\ nYear = 0 /\ nText = "" /\ nCategory = "" /\ normalized = Null
    /\ normPc = "idle"

P7Idle ==
    /\ p7Lines = <<>> /\ p7Idx = 0 /\ p7Rows = <<>> /\ p7Area = "" /\ p7Years = <<>>
    /\ numYearColumns = 0 /\ hasGrColumn = FALSE /\ p7Pending = "" /\ inDataSection = FALSE
    /\ sawResultatHeader = FALSE /\ p7Pc = "idle"

DbIdle ==
    /\ pdfReports = <<>> /\ storedRows = <<>> /\ stage = "off" /\ runNo = 0 /\ forceFlag = FALSE
    /\ selectedIds = <<>> /\ rowPos = 0 /\ pdfPc = "off" /\ layoutSplits = <<>>
    /\ coordSplits = <<>> /\ extractorCalls = <<>>

SheetIdle ==
    /\ shData = <<>> /\ shI = 0 /\ shMeans = <<>> /\ shResult = "none" /\ shPc = "idle"

DlIdle ==
    /\ dlHistory = <<>> /\ dlAttempt = 0 /\ dlOutcome = "none" /\ dlBody = "" /\ dlPc = "idle"

\* every component but g is idle
IdleBut(g) ==
    /\ IF g = "detect" THEN TRUE ELSE DetectIdle
    /\ IF g = "assign" THEN TRUE ELSE AssignIdle
    /\ IF g = "p5" THEN TRUE ELSE P5Idle
    /\ IF g = "xls" THEN TRUE ELSE XlsIdle
    /\ IF g = "demo" THEN TRUE ELSE DemoIdle
    /\ IF g = "dist" THEN TRUE ELSE DistIdle
    /\ IF g = "clean" THEN TRUE ELSE CleanIdle
    /\ IF g = "scand" THEN TRUE ELSE ScandIdle
    /\ IF g = "session" THEN TRUE ELSE SessionIdle
    /\ IF g = "main" THEN TRUE ELSE MainIdle
    /\ IF g = "norm" THEN TRUE ELSE NormIdle
    /\ IF g = "p7" THEN TRUE ELSE P7Idle
    /\ IF g = "db" THEN TRUE ELSE DbIdle
    /\ IF g = "sheet" THEN TRUE ELSE SheetIdle
    /\ IF g = "dl" THEN TRUE ELSE DlIdle

----------------------------------------------------------------------------
\* Format dispatch: utils.ts main (isXls) and tables.ts detectFormat.
\*
\* The layout text is a sequence of whitespace-separated tokens; "\n" is the
\* line break.  Only the words the fingerprints look for are told apart, every
\* other word is "x".

MaxTextLen == 3

TextTokens == {"NKI", "nki", "HELHET", "Kvalitetsfaktor", "Skalsteg", "sjugradig",
               "Otillr{cklig", "Resultat per fr}ga", "\n", "x"}

\* the /i flag of the fingerprints
LowerToken(t) == IF t = "NKI" THEN "nki" ELSE t

LocalPaths == {"r.pdf", "r.xls", "r.xlsx", "r.XLS", "r.Xlsx", "r.xlsm", "xls.pdf", "rxls"}

\* /\.xlsx?$/i.test(row.local_path)
isXls(path) ==
    \/ EndsWith(ToLower(path), ".xls")
    \/ EndsWith(ToLower(path), ".xlsx")

\* /\bNKI,?\s+HELHET\b/i : NKI, then whitespace (line breaks included), then HELHET
HasNkiHelhet(t) ==
    \E a \in 1..Len(t), b \in 1..Len(t) :
        /\ a < b
        /\ LowerToken(t[a]) = "nki"
        /\ t[b] = "HELHET"
        /\ \A k \in (a + 1)..(b - 1) : t[k] = "\n"

\* /Kvalitetsfaktor.*Skalsteg/i : both on one line, in this order
HasKvalitetsfaktorSkalsteg(t) ==
    \E a \in 1..Len(t), b \in 1..Len(t) :
        /\ a < b
        /\ t[a] = "Kvalitetsfaktor"
        /\ t[b] = "Skalsteg"
        /\ \A k \in (a + 1)..(b - 1) : t[k] # "\n"

HasToken(t, w) == \E k \in 1..Len(t) : t[k] = w

detectFormat_SevenPointFirst(t) ==
    LET hasSevenPoint == HasToken(t, "sjugradig") \/ HasToken(t, "Otillr{cklig")
        hasResultatPerFraga == HasToken(t, "Resultat per fr}ga")
    IN  IF hasSevenPoint
        THEN (IF hasResultatPerFraga THEN "7point" ELSE "ecers")
        ELSE IF HasNkiHelhet(t) \/ HasKvalitetsfaktorSkalsteg(t) THEN "scandinfo"
        ELSE "5point"

detectFormat(t) ==
    IF HasNkiHelhet(t) \/ HasKvalitetsfaktorSkalsteg(t) THEN "scandinfo"
    ELSE LET hasSevenPoint == HasToken(t, "sjugradig") \/ HasToken(t, "Otillr{cklig")
             hasResultatPerFraga == HasToken(t, "Resultat per fr}ga")
         IN  IF ~hasSevenPoint THEN "5point"
             ELSE IF hasResultatPerFraga THEN "7point"
             ELSE "ecers"

\* One iteration of main's loop: the parser the report is handed to.
\* parseXlsReport never looks at layout text; parseSinglePdf reaches
\* detectFormat through parseTablesFromPdf -> parseTables.
Dispatch ==
    /\ format = "none"
    /\ format' = IF isXls(localPath) THEN "xls" ELSE detectFormat(text)
    /\ UNCHANGED <<localPath, text>>
    /\ UNCHANGED notDetect

DetectInit ==
    /\ localPath \in LocalPaths
    /\ text \in SeqsUpTo(TextTokens, MaxTextLen)
    /\ format = "none"
    /\ IdleBut("detect")

DetectNext == Dispatch

SpecDetect == DetectInit /\ [][DetectNext]_vars

FormatTags == {"xls", "scandinfo", "7point", "ecers", "5point"}

SevenPointMarker(t) == HasToken(t, "sjugradig") \/ HasToken(t, "Otillr{cklig")

\* C1: format dispatch is total and first-match-wins.  Once a report is
\* dispatched exactly one of the five tags is chosen, and it is decided in
\* this order: spreadsheet extension, composite-index fingerprint, seven-point
\* marker with the results-per-question header, seven-point marker without it,
\* and the 5-point era for everything else.
C1_DispatchOrder ==
    format # "none" =>
        /\ format \in FormatTags
        /\ isXls(localPath) => format = "xls"
        /\ (~isXls(localPath) /\ (HasNkiHelhet(text) \/ HasKvalitetsfaktorSkalsteg(text)))
              => format = "scandinfo"
        /\ (~isXls(localPath) /\ ~HasNkiHelhet(text) /\ ~HasKvalitetsfaktorSkalsteg(text)
              /\ SevenPointMarker(text) /\ HasToken(text, "Resultat per fr}ga"))
              => format = "7point"
        /\ (~isXls(localPath) /\ ~HasNkiHelhet(text) /\ ~HasKvalitetsfaktorSkalsteg(text)
              /\ SevenPointMarker(text) /\ ~HasToken(text, "Resultat per fr}ga"))
              => format = "ecers"
        /\ (~isXls(localPath) /\ ~HasNkiHelhet(text) /\ ~HasKvalitetsfaktorSkalsteg(text)
              /\ ~SevenPointMarker(text))
              => format = "5point"

\* A text with the composite-index fingerprint and a seven-point marker is
\* dispatched to the composite-index era.
C1_Witness ==
    /\ format = "scandinfo"
    /\ HasNkiHelhet(text)
    /\ SevenPointMarker(text)

----------------------------------------------------------------------------
\* charts.ts assignCategories.
\*
\* Percentages are the integers parseResponseDistributions reads from "NN%".
\* The mean is scaled by 100 (4.52 is 452).  Scores are exact fractions
\* [num, den] compared by cross-multiplication; the penalties 0.03 and 0.2
\* are 3/100 and 20/100.

MaxN == 6

PctValues == {0, 45, 50, 100}
MeanValues == {100, 300, 440, 452}

NullSlots == <<Null, Null, Null, Null, Null, Null>>

RECURSIVE Sum(_)
Sum(s) == IF s = <<>> THEN 0 ELSE s[1] + Sum(Tail(s))

\* function* combinations(n, k, start): the k-subsets of start..n-1 as
\* increasing sequences, in the order the generator yields them.
RECURSIVE combinations(_, _, _)
RECURSIVE combinationsLoop(_, _, _)
combinationsLoop(n, k, first) ==
    IF first > n - k THEN <<>>
    ELSE LET rest == combinations(n, k - 1, first + 1)
         IN  [j \in 1..Len(rest) |-> <<first>> \o rest[j]] \o combinationsLoop(n, k, first + 1)

combinations(n, k, start) ==
    IF k = 0 THEN << <<>> >> ELSE combinationsLoop(n, k, start)

\* computeMean's weightedSum and total (slot 5, don't-know, excluded)
weightedSum(p, assignment) ==
    Sum([k \in 1..Len(assignment) |->
            IF assignment[k] < 5 THEN p[k] * (assignment[k] + 1) ELSE 0])

likertTotal(p, assignment) ==
    Sum([k \in 1..Len(assignment) |-> IF assignment[k] < 5 THEN p[k] ELSE 0])

\* computeMean returns null exactly when the Likert share is 0
computeMeanIsNull(p, assignment) == ~(likertTotal(p, assignment) > 0)

dontKnowPct(p, assignment) ==
    Sum([k \in 1..Len(assignment) |-> IF assignment[k] = 5 THEN p[k] ELSE 0])

dkPenalty(p, assignment) == Max(0, dontKnowPct(p, assignment) - 20) * 3

likertSlots(assignment) == SelectSeq(assignment, LAMBDA s : s < 5)

gapCount(assignment) ==
    LET ls == likertSlots(assignment)
    IN  Sum([j \in 1..(IF Len(ls) = 0 THEN 0 ELSE Len(ls) - 1) |-> ls[j + 1] - ls[j] - 1])

gapPenalty_None(assignment) == 0

gapPenalty(assignment) == gapCount(assignment) * 20

diff_Signed(p, assignment, m) ==
    100 * weightedSum(p, assignment) - m * likertTotal(p, assignment)

\* Math.abs(computed - meanValue), times 100 * total
diff(p, assignment, m) ==
    Abs(100 * weightedSum(p, assignment) - m * likertTotal(p, assignment))

\* score = diff + dkPenalty + gapPenalty, times 100, as the fraction num / den
score(p, assignment, m) ==
    [num |-> diff(p, assignment, m)
               + (dkPenalty(p, assignment) + gapPenalty(assignment)) * likertTotal(p, assignment),
     den |-> likertTotal(p, assignment)]

ScoreLess(a, b) == a.num * b.den < b.num * a.den

\* The loop over combinations(6, N) keeps the first candidate whose score is
\* strictly smaller than every earlier one.  The code computes the score in
\* IEEE doubles; two candidates whose exact scores are equal may compare
\* either way after rounding, while exact scores that differ do so by at
\* least 1 / (100 * total * total'), far above the rounding error.  So the
\* loop ends with one of the candidates no other candidate beats exactly.
bestAssignments(cs, p, m) ==
    LET valid == {j \in 1..Len(cs) : ~computeMeanIsNull(p, cs[j])}
        minimal == {j \in valid :
                       \A k \in valid : ~ScoreLess(score(p, cs[k], m), score(p, cs[j], m))}
    IN  {cs[j] : j \in minimal}

\* for (i ...) slots[target(i)] = p[i], in index order (a later write wins)
RECURSIVE writeSlots(_, _, _, _)
writeSlots(sl, targets, p, k) ==
    IF k > Len(targets) THEN sl
    ELSE writeSlots([sl EXCEPT ![targets[k] + 1] = p[k]], targets, p, k + 1)

fallbackTargets_Leftmost(p) ==
    [k \in 1..Len(p) |-> k - 1]

\* the fallback when no mean is available (meanValue === null)
fallbackTargets(p) ==
    LET N == Len(p)
    IN  IF Sum(p) < 90 /\ N >= 2
        THEN [k \in 1..N |-> IF k = N THEN 5 ELSE Max(0, (5 - (N - 1)) + (k - 1))]
        ELSE [k \in 1..N |-> Max(0, (5 - N) + (k - 1))]

placeBest_Reversed(p, best) ==
    writeSlots(NullSlots, best, [k \in 1..Len(p) |-> p[Len(p) + 1 - k]], 1)

\* if (bestAssignment) slots[bestAssignment[i]] = pcts[i]
placeBest(p, best) == writeSlots(NullSlots, best, p, 1)

\* The results assignCategories(p, m) can return: one result, except when
\* several candidates tie for the exact minimal score.
assignCategories(p, m) ==
    LET N == Len(p)
    IN  IF N = 0 THEN {NullSlots}
        ELSE IF N >= 6 THEN {<<p[1], p[2], p[3], p[4], p[5], p[6]>>}
        ELSE IF m = Null THEN {writeSlots(NullSlots, fallbackTargets(p), p, 1)}
        ELSE LET best == bestAssignments(combinations(6, N, 0), p, m)
             IN  IF best = {} THEN {NullSlots}
                 ELSE {placeBest(p, a) : a \in best}

AssignCall ==
    /\ acPc = "ready"
    /\ slots' \in assignCategories(pcts, meanValue)
    /\ acPc' = "done"
    /\ UNCHANGED <<pcts, meanValue>>
    /\ UNCHANGED notAssign

AssignInit ==
    /\ pcts \in SeqsUpTo(PctValues, MaxN) \cup {<<35, 58>>, <<7, 33, 51, 7>>, <<7, 23, 67>>}
    /\ meanValue \in MeanValues \cup {Null}
    /\ slots = <<>>
    /\ acPc = "ready"
    /\ IdleBut("assign")

AssignNext == AssignCall

SpecAssign == AssignInit /\ [][AssignNext]_vars

\* the non-null slot values, read strongly-disagree .. don't-know
NonNullSlots(sl) == SelectSeq(sl, LAMBDA v : v # Null)

\* C2: the slots respect the printed left-to-right order.  Reading the six
\* slots from strongly-disagree to don't-know, the non-null values are the
\* input percentages in input order (a leading run of them), so no slot holds
\* a value out of order and no slot holds more than one input value.
C2_OrderPreserved ==
    acPc = "done" =>
        /\ Len(slots) = 6
        /\ Len(NonNullSlots(slots)) <= Len(pcts)
        /\ NonNullSlots(slots) = SubSeq(pcts, 1, Len(NonNullSlots(slots)))

\* A mean-guided call with two different percentages that were both placed.
C2_Witness ==
    /\ acPc = "done"
    /\ meanValue # Null
    /\ Len(pcts) = 2
    /\ pcts[1] # pcts[2]
    /\ Len(NonNullSlots(slots)) = 2

\* C3: assignCategories([35, 58], 4.52) places 35 in agree and 58 in
\* strongly-agree and leaves the other four slots null.
C3_Example3558 ==
    (acPc = "done" /\ pcts = <<35, 58>> /\ meanValue = 452)
        => slots = <<Null, Null, Null, 35, 58, Null>>

C3_Witness == acPc = "done" /\ pcts = <<35, 58>> /\ meanValue = 452

\* The occupied slot indices (0-based) of a result.
Occupied(sl) == {s \in 0..5 : sl[s + 1] # Null}

\* C4: assignCategories([7, 33, 51, 7], 4.40) selects four slots with no
\* unoccupied Likert slot between occupied Likert slots, and the weighted mean
\* of the placement (don't-know excluded) is within 0.1 of 4.40.
C4_Example7_33_51_7 ==
    (acPc = "done" /\ pcts = <<7, 33, 51, 7>> /\ meanValue = 440) =>
        LET likert == Occupied(slots) \ {5}
            ws == Sum([s \in 1..5 |-> IF slots[s] # Null THEN slots[s] * s ELSE 0])
            tot == Sum([s \in 1..5 |-> IF slots[s] # Null THEN slots[s] ELSE 0])
        IN  /\ Cardinality(Occupied(slots)) = 4
            /\ \A a \in likert, b \in likert :
                   \A s \in 0..4 : (a < s /\ s < b) => s \in likert
            /\ tot > 0
            /\ Abs(100 * ws - 440 * tot) < 10 * tot

C4_Witness == acPc = "done" /\ pcts = <<7, 33, 51, 7>> /\ meanValue = 440

\* The N most-positive Likert slots filled in order, don't-know null.
AllInMostPositive(p, sl) ==
    /\ sl[6] = Null
    /\ \A s \in 1..5 : sl[s] = (IF s > 5 - Len(p) THEN p[s - (5 - Len(p))] ELSE Null)

\* The last value in don't-know, the first N-1 in the N-1 most-positive
\* Likert slots, in order.
LastIsDontKnow(p, sl) ==
    /\ sl[6] = p[Len(p)]
    /\ \A s \in 1..5 :
           sl[s] = (IF s > 5 - (Len(p) - 1) THEN p[s - (5 - (Len(p) - 1))] ELSE Null)

----------------------------------------------------------------------------
\* utils.ts cleanQuestionText

RECURSIVE StripLeadingChar(_, _)
StripLeadingChar(s, c) ==
    IF s # "" /\ CharAt(s, 1) = c THEN StripLeadingChar(SubSeq(s, 2, Len(s)), c) ELSE s

\* .replace(/^[...…]+\s*/, "")
stripUnicodeEllipsis(s) ==
    IF StartsWith(s, Ellipsis) THEN TrimStart(StripLeadingChar(s, Ellipsis)) ELSE s

\* .replace(/^\.{2,}\s*/, "")
stripAsciiDots(s) ==
    IF StartsWith(s, "..") THEN TrimStart(StripLeadingChar(s, ".")) ELSE s

\* .replace(/\s+/g, " ") on the characters lo..hi of s: a whitespace character
\* that follows another one goes, the first of a run becomes one space
RECURSIVE collapseRange(_, _, _)
collapseRange(s, lo, hi) ==
    IF lo > hi THEN ""
    ELSE IF lo = hi
    THEN (IF ~IsSpace(CharAt(s, lo)) THEN CharAt(s, lo)
          ELSE IF IsSpace(CharAt(s, lo - 1)) THEN "" ELSE " ")
    ELSE collapseRange(s, lo, (lo + hi) \div 2)
             \o collapseRange(s, (lo + hi) \div 2 + 1, hi)

collapseWhitespace(s) == collapseRange(s, 1, Len(s))

\* the normalization without the cut at 500 characters
cleanQuestionText_Uncut(t) ==
    LET cleaned == Trim(collapseWhitespace(stripAsciiDots(stripUnicodeEllipsis(t))))
    IN  IF Len(cleaned) > 0
        THEN LowerChar(CharAt(cleaned, 1)) \o SubSeq(cleaned, 2, Len(cleaned))
        ELSE cleaned

cleanQuestionText(t) ==
    LET cleaned == Trim(collapseWhitespace(stripAsciiDots(stripUnicodeEllipsis(t))))
        lowered == IF Len(cleaned) > 0
                   THEN LowerChar(CharAt(cleaned, 1)) \o SubSeq(cleaned, 2, Len(cleaned))
                   ELSE cleaned
    IN  IF Len(lowered) > 500 THEN SubSeq(lowered, 1, 500) ELSE lowered

----------------------------------------------------------------------------
\* tables.ts parseMeanRows5Point

QUESTION_AREA_PATTERNS_5POINT ==
    <<"Normer och v{rden", "V{rdegrund och uppdrag", "Omsorg, utveckling och l{rande",
      "Barns inflytande och delaktighet", "F^rskola och hem", "Helhetsomd^me">>

mapAreaName(name) ==
    LET lower == ToLower(name)
    IN  IF Includes(lower, "normer") \/ Includes(lower, "trivsel")
           \/ Includes(lower, "trygghet") \/ Includes(lower, "gemenskap")
        THEN "Trygghet och trivsel"
        ELSE IF Includes(lower, "v{rdegrund") \/ Includes(lower, "uppdrag")
        THEN "Utveckling och l{rande"
        ELSE IF Includes(lower, "omsorg") \/ Includes(lower, "utveckling")
                \/ Includes(lower, "l{rande")
        THEN "Utveckling och l{rande"
        ELSE IF Includes(lower, "inflytande") \/ Includes(lower, "delaktighet")
        THEN "Inflytande"
        ELSE IF Includes(lower, "information") THEN "Inflytande"
        ELSE IF Includes(lower, "f^rskola och hem") \/ Includes(lower, "relation")
                \/ Includes(lower, "kommunikation")
        THEN "Relation och kommunikation"
        ELSE IF Includes(lower, "helhets") \/ Includes(lower, "helhetsomd^me")
        THEN "Helhetsomd^me"
        ELSE IF Includes(lower, "f^ruts{ttningar") THEN "Utveckling och l{rande"
        ELSE IF Includes(lower, "pedagogik") THEN "Utveckling och l{rande"
        ELSE IF Includes(lower, "kontinuitet") THEN "Relation och kommunikation"
        ELSE name

detectColumnLayout5Point(headerLine) ==
    LET grIdx == IndexOf(headerLine, "GR")
        goIdx == Max(IndexOf(headerLine, "G^teborg"), IndexOf(headerLine, "Goteborg"))
    IN  IF grIdx # 0 /\ goIdx # 0
        THEN (IF grIdx < goIdx THEN "gr-first" ELSE "gr-last")
        ELSE "gr-first"

\* line.match(/\b(20\d{2})\b/g), parsed, from position k on
RECURSIVE yearMatches(_, _)
yearMatches(line, k) ==
    IF k > Len(line) THEN <<>>
    ELSE IF /\ CharAt(line, k) = "2" /\ CharAt(line, k + 1) = "0"
            /\ IsDigit(CharAt(line, k + 2)) /\ IsDigit(CharAt(line, k + 3))
            /\ ~IsWordChar(CharAt(line, k - 1)) /\ ~IsWordChar(CharAt(line, k + 4))
    THEN <<2000 + 10 * DigitValue(CharAt(line, k + 2)) + DigitValue(CharAt(line, k + 3))>>
             \o yearMatches(line, k + 4)
    ELSE yearMatches(line, k + 1)

\* the matches of numberOrDashRe = /(\d[.,]\d{2})\b|-(?=\s{2,}|\s*$)/g from
\* position k on: match.index (0-based) and the pushed value
RECURSIVE numberOrDashMatches(_, _)
numberOrDashMatches(line, k) ==
    IF k > Len(line) THEN <<>>
    ELSE IF /\ IsDigit(CharAt(line, k)) /\ CharAt(line, k + 1) \in {".", ","}
            /\ IsDigit(CharAt(line, k + 2)) /\ IsDigit(CharAt(line, k + 3))
            /\ ~IsWordChar(CharAt(line, k + 4))
    THEN <<[index |-> k - 1,
            value |-> 100 * DigitValue(CharAt(line, k)) + 10 * DigitValue(CharAt(line, k + 2))
                        + DigitValue(CharAt(line, k + 3))]>>
             \o numberOrDashMatches(line, k + 4)
    ELSE IF /\ CharAt(line, k) = "-"
            /\ \/ IsSpace(CharAt(line, k + 1)) /\ IsSpace(CharAt(line, k + 2))
               \/ Trim(SubSeq(line, k + 1, Len(line))) = ""
    THEN <<[index |-> k - 1, value |-> Null]>> \o numberOrDashMatches(line, k + 1)
    ELSE numberOrDashMatches(line, k + 1)

\* values.filter((v) => v !== null).length
numericCount(values) == Cardinality({k \in 1..Len(values) : values[k] # Null})

\* pageHeaderRe = /\|.*[Ss]varsfrekvens/
pageHeaderRe(t) ==
    LET bar == IndexOf(t, "|")
    IN  /\ bar # 0
        /\ \/ Includes(SubSeq(t, bar + 1, Len(t)), "Svarsfrekvens")
           \/ Includes(SubSeq(t, bar + 1, Len(t)), "svarsfrekvens")

\* w1, whitespace, w2 somewhere in s
IncludesSpaced(s, w1, w2) ==
    \E k \in 1..Len(s) :
        /\ SubSeq(s, k, Min(Len(s), k + Len(w1) - 1)) = w1
        /\ IsSpace(CharAt(s, k + Len(w1)))
        /\ StartsWith(TrimStart(SubSeq(s, k + Len(w1), Len(s))), w2)

\* /Könsuppdelad\s+andel/i or /Frågeområde\s+per\s+enhet/i
stopRe(t) ==
    LET lower == ToLower(t)
    IN  \/ IncludesSpaced(lower, "k^nsuppdelad", "andel")
        \/ \E k \in 1..Len(lower) :
              /\ IncludesSpaced(SubSeq(lower, k, Len(lower)), "fr}geomr}de", "per")
              /\ IncludesSpaced(SubSeq(lower, k, Len(lower)), "per", "enhet")
              /\ StartsWith(SubSeq(lower, k, Len(lower)), "fr}geomr}de")
              /\ StartsWith(TrimStart(SubSeq(lower, k + 11, Len(lower))), "per ")

\* line.trim().split(/\s{2,}/)
RECURSIVE splitWide(_, _)
splitWide(s, cur) ==
    IF s = "" THEN <<cur>>
    ELSE IF StartsWith(s, "  ") THEN <<cur>> \o splitWide(TrimStart(s), "")
    ELSE splitWide(SubSeq(s, 2, Len(s)), cur \o CharAt(s, 1))

\* /\bGR\b/
hasWordGR(line) ==
    \E k \in 1..Len(line) :
        /\ CharAt(line, k) = "G" /\ CharAt(line, k + 1) = "R"
        /\ ~IsWordChar(CharAt(line, k - 1)) /\ ~IsWordChar(CharAt(line, k + 2))

\* /G.teborg/
hasGteborg(line) ==
    \E k \in 1..Len(line) :
        /\ CharAt(line, k) = "G" /\ CharAt(line, k + 1) # ""
        /\ k + 7 <= Len(line) /\ SubSeq(line, k + 2, k + 7) = "teborg"

\* the table header test of the scan
isTableHeader(line) ==
    /\ hasWordGR(line) /\ hasGteborg(line)
    /\ LET words == splitWide(Trim(line), "")
       IN  Len(words) >= 2 /\ \E k \in 1..Len(words) : Trim(words[k]) = "GR"

\* the header test of the first pass
includesGrGoteborg(line) ==
    Includes(line, "GR") /\ (Includes(line, "G^teborg") \/ Includes(line, "Goteborg"))

\* the first of lines j..last (at most 3 lines) with at least atLeast year
\* matches gives the years; <<>> when none does
RECURSIVE yearsNear(_, _, _, _)
yearsNear(lns, j, last, atLeast) ==
    IF j > last THEN <<>>
    ELSE LET ys == yearMatches(lns[j], 1)
         IN  IF Len(ys) >= atLeast THEN ys ELSE yearsNear(lns, j + 1, last, atLeast)

\* first pass: the historical years of the first header that has at least two
RECURSIVE firstPassYears(_, _)
firstPassYears(lns, k) ==
    IF k > Len(lns) THEN <<>>
    ELSE IF includesGrGoteborg(lns[k])
    THEN LET ys == yearsNear(lns, k, Min(k + 2, Len(lns)), 2)
         IN  IF Len(ys) > 0 THEN ys ELSE firstPassYears(lns, k + 1)
    ELSE firstPassYears(lns, k + 1)

\* the first area pattern the line is or starts with; "" when none
RECURSIVE matchedArea(_, _)
matchedArea(trimmed, k) ==
    IF k > Len(QUESTION_AREA_PATTERNS_5POINT) THEN ""
    ELSE LET area == QUESTION_AREA_PATTERNS_5POINT[k]
         IN  IF trimmed = area \/ StartsWith(trimmed, area \o " ") THEN area
             ELSE matchedArea(trimmed, k + 1)

startsWithEllipsis(trimmed) == StartsWith(trimmed, Ellipsis) \/ StartsWith(trimmed, "...")

\* /^Resultat|^Jämförelse|^Årsjämförelse|^Könsuppdelad|^Frågeområde/i
sectionWordRe(trimmed) ==
    LET lower == ToLower(SubSeq(trimmed, 1, Min(Len(trimmed), 13)))
    IN  \/ StartsWith(lower, "resultat") \/ StartsWith(lower, "j{mf^relse")
        \/ StartsWith(lower, "}rsj{mf^relse") \/ StartsWith(lower, "k^nsuppdelad")
        \/ StartsWith(lower, "fr}geomr}de")

HasDigit(t) == \E k \in 1..Len(t) : IsDigit(CharAt(t, k))

\* values[idx] ?? null, also for an index outside the array (undefined)
at(values, idx) == IF idx >= 0 /\ idx < Len(values) THEN values[idx + 1] ELSE Null

EmptyHist == [y \in {} |-> Null]

\* histMeans[String(years[j])] = vs[j] for j = 1..Len(vs), in order
RECURSIVE writeHist(_, _, _, _)
writeHist(h, years, vs, j) ==
    IF j > Len(vs) THEN h
    ELSE writeHist([y \in DOMAIN h \cup {years[j]} |-> IF y = years[j] THEN vs[j] ELSE h[y]],
                   years, vs, j + 1)

\* gr-first: [GR] [Göteborg] [District] [School] [Unit?] [year1] [year2] ...
sliceGrFirst(values, years) ==
    LET numHist == Len(years)
        histStart == Len(values) - numHist
    IN  [meanGr |-> at(values, 0),
         meanGoteborg |-> IF Len(values) >= 2 THEN at(values, 1) ELSE Null,
         meanDistrict |-> IF Len(values) >= 3 THEN at(values, 2) ELSE Null,
         meanSchool |-> IF Len(values) >= 4 THEN at(values, 3) ELSE Null,
         historicalMeans |->
             writeHist(EmptyHist, years,
                       [j \in 1..numHist |-> at(values, histStart + j - 1)], 1)]

sliceGrLast_RegionFirst(values, years) ==
    LET len == Len(values)
    IN  [meanGr |-> IF len >= 3 THEN at(values, len - 3) ELSE Null,
         meanGoteborg |-> IF len >= 2 THEN at(values, len - 2) ELSE Null,
         meanDistrict |-> IF len >= 1 THEN at(values, len - 1) ELSE Null,
         meanSchool |-> Null,
         historicalMeans |-> EmptyHist]

\* gr-last: [Unit year1] [Unit year2] ... [School?] [District] [Göteborg] [GR]
sliceGrLast(values, years) ==
    LET len == Len(values)
        numHist == Len(years)
        beforeGeo == SubSeq(values, 1, Max(0, len - 3))
        histValues == IF Len(beforeGeo) > numHist
                      THEN SubSeq(beforeGeo, 1, Len(beforeGeo) - 1)
                      ELSE beforeGeo
    IN  [meanGr |-> IF len >= 1 THEN at(values, len - 1) ELSE Null,
         meanGoteborg |-> IF len >= 2 THEN at(values, len - 2) ELSE Null,
         meanDistrict |-> IF len >= 3 THEN at(values, len - 3) ELSE Null,
         meanSchool |-> IF Len(beforeGeo) > numHist
                        THEN at(beforeGeo, Len(beforeGeo) - 1)
                        ELSE (IF Len(beforeGeo) >= 1 THEN at(beforeGeo, 0) ELSE Null),
         historicalMeans |->
             writeHist(EmptyHist, years, SubSeq(histValues, 1, Min(Len(histValues), numHist)), 1)]

\* the look-ahead loop after a pushed row: la is the candidate line, idx the
\* last consumed line, qt the row's question text
RECURSIVE lookAhead5Point(_, _, _, _)
lookAhead5Point(lns, la, idx, qt) ==
    IF la > Len(lns) THEN [i |-> idx, questionText |-> qt]
    ELSE LET t == Trim(lns[la])
         IN  IF t = "" THEN lookAhead5Point(lns, la + 1, idx, qt)
             ELSE IF Len(t) >= 3 /\ Len(t) < 60 /\ ~HasDigit(t) /\ IsLower(CharAt(t, 1))
             THEN lookAhead5Point(lns, la + 1, la, cleanQuestionText(qt \o " " \o t))
             ELSE [i |-> idx, questionText |-> qt]

\* const lines = text.split("\n") ... the first pass over the headers
P5FirstPass ==
    /\ p5Pc = "start"
    /\ historicalYears' = firstPassYears(lines, 1)
    /\ i' = 1
    /\ p5Pc' = "scan"
    /\ UNCHANGED <<lines, rows, currentArea, columnLayout, inTable, pendingQuestionText,
                   doneWithTables>>
    /\ UNCHANGED notP5

\* one iteration of the scan loop, on line i (1-based)
P5Line ==
    /\ p5Pc = "scan"
    /\ i <= Len(lines)
    /\ \E matches \in {numberOrDashMatches(lines[i], 1)} :
       \E values \in {[k \in 1..Len(matches) |-> matches[k].value]} :
       LET line == lines[i]
           trimmed == Trim(line)
           area == matchedArea(trimmed, 1)
           area1 == IF area # "" THEN mapAreaName(area) ELSE currentArea
           inTable1 == IF area # "" THEN FALSE ELSE inTable
           pending1 == IF area # "" THEN "" ELSE pendingQuestionText
           count == numericCount(values)
           questionText0 == Trim(SubSeq(line, 1, matches[1].index))
           questionText1 == IF pending1 # ""
                            THEN (IF Len(questionText0) > 3
                                  THEN pending1 \o " " \o questionText0
                                  ELSE pending1)
                            ELSE questionText0
           questionText == cleanQuestionText(questionText1)
           sliced == IF columnLayout = "gr-first"
                     THEN sliceGrFirst(values, historicalYears)
                     ELSE sliceGrLast(values, historicalYears)
           ahead == lookAhead5Point(lines, i + 1, i, questionText)
           headerYears == yearsNear(lines, i, Min(i + 2, Len(lines)), 1)
       IN  IF doneWithTables \/ (Len(rows) > 0 /\ stopRe(trimmed))
           THEN /\ doneWithTables' = TRUE
                /\ i' = i + 1
                /\ UNCHANGED <<rows, currentArea, historicalYears, columnLayout, inTable,
                               pendingQuestionText>>
           ELSE IF pageHeaderRe(trimmed)
           THEN /\ inTable' = FALSE
                /\ pendingQuestionText' = ""
                /\ i' = i + 1
                /\ UNCHANGED <<rows, currentArea, historicalYears, columnLayout,
                               doneWithTables>>
           ELSE IF isTableHeader(line)
           THEN /\ currentArea' = area1
                /\ inTable' = TRUE
                /\ pendingQuestionText' = ""
                /\ columnLayout' = detectColumnLayout5Point(line)
                /\ historicalYears' = IF Len(headerYears) >= 1 THEN headerYears
                                      ELSE historicalYears
                /\ i' = i + 1
                /\ UNCHANGED <<rows, doneWithTables>>
           ELSE IF inTable1 /\ StartsWith(trimmed, "]rsj{mf^relsen")
           THEN /\ currentArea' = area1
                /\ inTable' = FALSE
                /\ pendingQuestionText' = ""
                /\ i' = i + 1
                /\ UNCHANGED <<rows, historicalYears, columnLayout, doneWithTables>>
           ELSE IF ~inTable1 \/ trimmed = ""
           THEN /\ currentArea' = area1
                /\ inTable' = inTable1
                /\ pendingQuestionText' = pending1
                /\ i' = i + 1
                /\ UNCHANGED <<rows, historicalYears, columnLayout, doneWithTables>>
           ELSE /\ currentArea' = area1
                /\ inTable' = inTable1
                /\ UNCHANGED <<historicalYears, columnLayout, doneWithTables>>
                /\ IF count >= 3
                   THEN /\ pendingQuestionText' = ""
                        /\ IF Len(questionText) > 5
                           THEN /\ rows' = Append(rows,
                                      [questionText |-> ahead.questionText,
                                       questionArea |-> area1,
                                       meanGr |-> sliced.meanGr,
                                       meanGoteborg |-> sliced.meanGoteborg,
                                       meanDistrict |-> sliced.meanDistrict,
                                       meanSchool |-> sliced.meanSchool,
                                       historicalMeans |-> sliced.historicalMeans])
                                /\ i' = ahead.i + 1
                           ELSE /\ rows' = rows
                                /\ i' = i + 1
                   ELSE /\ rows' = rows
                        /\ i' = i + 1
                        /\ pendingQuestionText' =
                              IF startsWithEllipsis(trimmed) THEN trimmed
                              ELSE IF /\ inTable1 /\ count = 0 /\ Len(trimmed) > 10
                                      /\ IsUpper(CharAt(trimmed, 1))
                                      /\ ~\E k \in 1..Len(QUESTION_AREA_PATTERNS_5POINT) :
                                            StartsWith(trimmed, QUESTION_AREA_PATTERNS_5POINT[k])
                                      /\ ~sectionWordRe(trimmed)
                              THEN trimmed
                              ELSE IF pending1 # "" /\ Len(trimmed) > 0 /\ count = 0
                              THEN pending1 \o " " \o trimmed
                              ELSE pending1
    /\ UNCHANGED <<lines, p5Pc>>
    /\ UNCHANGED notP5

\* return { rows, historicalYears }
P5Return ==
    /\ p5Pc = "scan"
    /\ i > Len(lines)
    /\ p5Pc' = "done"
    /\ UNCHANGED <<lines, i, rows, currentArea, historicalYears, columnLayout, inTable,
                   pendingQuestionText, doneWithTables>>
    /\ UNCHANGED notP5

----------------------------------------------------------------------------
\* Documents for the 5-point parser

MaxLines == 3
MaxTokens == 8
MaxYears == 3

LineSet5 == {
    "",
    "Skolan | Svarsfrekvens 48%",
    "Normer och v{rden",
    "GR  G^teborg  Omr}de  Skola  2024  2023",
    "2024  2023  Skola  Omr}de  G^teborg  GR",
    "]rsj{mf^relsen visar",
    "~mitt barn trivs  4.01  4.02  4.03  4.04  4.05  4.06",
    "  4,11  4,12  -  4,14",
    "~jag {r n^jd med",
    "Jag k{nner mig trygg",
    "l{rande",
    "K^nsuppdelad andel positiva" }

YearColumns == <<"2024", "2023", "2022", "2021", "2020">>

RECURSIVE yearsText(_, _)
yearsText(n, k) == IF k > n THEN "" ELSE "  " \o YearColumns[k] \o yearsText(n, k + 1)

headerLine(layout, n) ==
    IF layout = "gr-first"
    THEN "GR  G^teborg  Omr}de  Skola" \o yearsText(n, 1)
    ELSE Trim(yearsText(n, 1) \o "  Skola  Omr}de  G^teborg  GR")

\* a data line whose j-th numeric column is 4.0j and whose other columns are
\* dashes; numeric[j] tells which
RECURSIVE columnsText(_, _)
columnsText(numeric, j) ==
    IF j > Len(numeric) THEN ""
    ELSE (IF numeric[j] THEN "  4.0" \o CharAt(Digits, j + 1) ELSE "  -")
             \o columnsText(numeric, j + 1)

\* the lines that may follow a data row
TailLines5 ==
    {"l{rande", "f^rskolan | svarsfrekvens", "~jag {r n^jd med  4.11  4.12  4.13  4.14"}

dataLine(numeric) == "~mitt barn trivs" \o columnsText(numeric, 1)

P5Init ==
    /\ \/ lines \in SeqsUpTo(LineSet5, MaxLines)
       \/ \E layout \in {"gr-first", "gr-last"}, n \in 0..MaxYears,
             numeric \in SeqsUpTo(BOOLEAN, MaxTokens) :
             lines = <<headerLine(layout, n), dataLine(numeric)>>
       \/ \E tail \in SeqsUpTo(TailLines5, MaxLines - 1) :
             lines = <<headerLine("gr-first", 2), dataLine(<<TRUE, TRUE, TRUE, TRUE>>)>> \o tail
    /\ i = 0
    /\ rows = <<>>
    /\ currentArea = ""
    /\ historicalYears = <<>>
    /\ columnLayout = "gr-first"
    /\ inTable = FALSE
    /\ pendingQuestionText = ""
    /\ doneWithTables = FALSE
    /\ p5Pc = "start"
    /\ IdleBut("p5")

P5Next == P5FirstPass \/ P5Line \/ P5Return

Spec5Point == P5Init /\ [][P5Next]_vars

----------------------------------------------------------------------------
\* Properties of parseMeanRows5Point

rowValues(row) ==
    {row.meanGr, row.meanGoteborg, row.meanDistrict, row.meanSchool}
        \cup {row.historicalMeans[y] : y \in DOMAIN row.historicalMeans}

\* the step pushes a row
EmitsRow == Len(rows') = Len(rows) + 1

emittedRow == rows'[Len(rows')]

\* the tokens of the line the step reads
lineTokens ==
    LET matches == numberOrDashMatches(lines[i], 1)
    IN  [k \in 1..Len(matches) |-> matches[k].value]

yearSet == {historicalYears[j] : j \in 1..Len(historicalYears)}

\* C6: every row a parser emits has at least one non-null value among region,
\* city, district, facility and its historical-year values. (Stated for the
\* 5-point parser; it does not hold there.)
C6_NoEmptyRow ==
    \A r \in 1..Len(rows) : rowValues(rows[r]) # {Null}

\* C7: gr-first slicing. For every emitted row whose line yields k tokens with
\* N detected years, tokens 1..4 are region, city, district, facility, the
\* last N tokens are the values of the detected years in header order, and no
\* token fills both a geographic slot and a historical slot (on the documents
\* whose numeric tokens are pairwise different: no value is in both).
C7_GrFirstSlicing ==
    [][(p5Pc = "scan" /\ EmitsRow /\ columnLayout = "gr-first") =>
        LET values == lineTokens
            k == Len(values)
            N == Len(historicalYears)
            row == emittedRow
            geo == {row.meanGr, row.meanGoteborg, row.meanDistrict, row.meanSchool}
            hist == {row.historicalMeans[y] : y \in DOMAIN row.historicalMeans}
            distinctTokens == \A a, b \in 1..k :
                                 (a # b /\ values[a] # Null) => values[a] # values[b]
        IN  /\ row.meanGr = at(values, 0)
            /\ row.meanGoteborg = at(values, 1)
            /\ row.meanDistrict = at(values, 2)
            /\ row.meanSchool = at(values, 3)
            /\ DOMAIN row.historicalMeans = yearSet
            /\ \A j \in 1..N : row.historicalMeans[historicalYears[j]] = at(values, k - N + j - 1)
            /\ distinctTokens => (geo \cap hist) \subseteq {Null}]_vars

\* C8: gr-last slicing. For every emitted row the last three tokens are
\* district, city, region; of the tokens before them, when there are more
\* than the number of detected years the very last one is the facility value
\* and the earlier ones map to the detected years in header order, otherwise
\* they map to the detected years in order.
C8_GrLastSlicing ==
    [][(p5Pc = "scan" /\ EmitsRow /\ columnLayout = "gr-last") =>
        LET values == lineTokens
            k == Len(values)
            N == Len(historicalYears)
            before == k - 3
            row == emittedRow
        IN  /\ k >= 3
            /\ row.meanDistrict = values[k - 2]
            /\ row.meanGoteborg = values[k - 1]
            /\ row.meanGr = values[k]
            /\ IF before > N
               THEN /\ row.meanSchool = values[before]
                    /\ DOMAIN row.historicalMeans = yearSet
                    /\ \A j \in 1..N : row.historicalMeans[historicalYears[j]] = values[j]
               ELSE /\ DOMAIN row.historicalMeans = {historicalYears[j] : j \in 1..before}
                    /\ \A j \in 1..before :
                          row.historicalMeans[historicalYears[j]] = values[j]]_vars

\* a gr-last row with two detected years and six tokens: two years, the
\* facility, then district, city, region
C8_Witness ==
    /\ p5Pc = "done" /\ columnLayout = "gr-last" /\ Len(rows) = 1
    /\ historicalYears = <<2024, 2023>>
    /\ lines[2] = dataLine(<<TRUE, TRUE, TRUE, TRUE, TRUE, TRUE>>)
    /\ rows[1].historicalMeans[2024] = 401 /\ rows[1].historicalMeans[2023] = 402
    /\ rows[1].meanSchool = 403 /\ rows[1].meanDistrict = 404
    /\ rows[1].meanGoteborg = 405 /\ rows[1].meanGr = 406

----------------------------------------------------------------------------
\* xls.ts findUnitSheetIds, parseXlsFile

MaxSheets == 4

SheetNameSet ==
    {"T100000", "T100100", "T100101", "T100200", "T100301", "T10015", "TD100201",
     "Inneh}ll"}

\* n.startsWith("T") && !n.startsWith("TD") && n !== "Innehåll"
isTSheet(n) == StartsWith(n, "T") /\ ~StartsWith(n, "TD") /\ n # "Inneh}ll"

\* n.replace(/^T/, "")
stripT(n) == IF StartsWith(n, "T") THEN SubSeq(n, 2, Len(n)) ELSE n

\* sheetNames.filter(...).map(...)
tIdsOf(names) == [k \in 1..Len(SelectSeq(names, isTSheet)) |-> stripT(SelectSeq(names, isTSheet)[k])]

groupPrefix_District(id) == SubSeq(id, 1, Max(0, Len(id) - 4))

\* id.slice(0, -2)
groupPrefix(id) == SubSeq(id, 1, Max(0, Len(id) - 2))

hasChildren(tIds, id) ==
    \E k \in 1..Len(tIds) :
        /\ tIds[k] # id
        /\ StartsWith(tIds[k], groupPrefix(id))
        /\ ~EndsWith(tIds[k], "00")

\* the for loop over tIds, from entry k on
RECURSIVE unitIdsFrom(_, _, _)
unitIdsFrom(tIds, k, unitIds) ==
    IF k > Len(tIds) THEN unitIds
    ELSE LET id == tIds[k]
         IN  IF EndsWith(id, "0000") THEN unitIdsFrom(tIds, k + 1, unitIds)
             ELSE IF ~EndsWith(id, "00") THEN unitIdsFrom(tIds, k + 1, unitIds \cup {id})
             ELSE IF ~hasChildren(tIds, id) THEN unitIdsFrom(tIds, k + 1, unitIds \cup {id})
             ELSE unitIdsFrom(tIds, k + 1, unitIds)

findUnitSheetIds(names) == unitIdsFrom(tIdsOf(names), 1, {})

\* const leafIds = findUnitSheetIds(sheetNames)
XlsFindLeaves ==
    /\ xlsPc = "start"
    /\ leafIds' = findUnitSheetIds(sheetNames)
    /\ wsIdx' = 1
    /\ xlsPc' = "sheets"
    /\ UNCHANGED <<sheetNames, results>>
    /\ UNCHANGED notXls

\* one iteration of the loop over wb.worksheets; parsed tells whether parseFn
\* returned data for the sheet
XlsSheet ==
    /\ xlsPc = "sheets"
    /\ wsIdx <= Len(sheetNames)
    /\ \E parsed \in BOOLEAN :
          LET sheetName == sheetNames[wsIdx]
              numId == stripT(sheetName)
          IN  results' = IF /\ StartsWith(sheetName, "T") /\ ~StartsWith(sheetName, "TD")
                            /\ sheetName # "Inneh}ll"
                            /\ numId \in leafIds
                            /\ parsed
                         THEN Append(results, numId)
                         ELSE results
    /\ wsIdx' = wsIdx + 1
    /\ UNCHANGED <<sheetNames, leafIds, xlsPc>>
    /\ UNCHANGED notXls

\* return results
XlsReturn ==
    /\ xlsPc = "sheets"
    /\ wsIdx > Len(sheetNames)
    /\ xlsPc' = "done"
    /\ UNCHANGED <<sheetNames, leafIds, results, wsIdx>>
    /\ UNCHANGED notXls

\* a workbook's sheet names are pairwise different
XlsInit ==
    /\ sheetNames \in {ns \in SeqsUpTo(SheetNameSet, MaxSheets) :
                          \A a, b \in 1..Len(ns) : a # b => ns[a] # ns[b]}
    /\ leafIds = {}
    /\ results = <<>>
    /\ wsIdx = 0
    /\ xlsPc = "start"
    /\ IdleBut("xls")

XlsNext == XlsFindLeaves \/ XlsSheet \/ XlsReturn

SpecXls == XlsInit /\ [][XlsNext]_vars

sheetIds == {stripT(sheetNames[k]) : k \in {j \in 1..Len(sheetNames) : isTSheet(sheetNames[j])}}

DistrictTotal(id) == EndsWith(id, "0000")
GroupLevel(id) == EndsWith(id, "00") /\ ~DistrictTotal(id)
UnitLevel(id) == ~EndsWith(id, "00")

\* C9: hierarchy resolution retains exactly the leaf sheets: every unit-level
\* id is retained, a group-level id is retained iff no unit-level id shares
\* its prefix, district totals never; sheets 100000, 100100, 100101, 100200
\* give exactly {100101, 100200}. Nothing outside the retained set is parsed.
C9_LeafSheets ==
    xlsPc \in {"sheets", "done"} =>
        /\ leafIds \subseteq sheetIds
        /\ \A id \in sheetIds :
              /\ UnitLevel(id) => id \in leafIds
              /\ DistrictTotal(id) => id \notin leafIds
              /\ GroupLevel(id) =>
                    (id \in leafIds <=>
                        ~\E other \in sheetIds :
                            UnitLevel(other) /\ StartsWith(other, SubSeq(id, 1, Len(id) - 2)))
        /\ {sheetNames[k] : k \in 1..Len(sheetNames)}
               = {"T100000", "T100100", "T100101", "T100200"}
              => leafIds = {"100101", "100200"}
        /\ \A k \in 1..Len(results) : results[k] \in leafIds

\* the example workbook, read to the end with both leaves parsed
C9_Witness ==
    /\ xlsPc = "done"
    /\ sheetNames = <<"T100000", "T100100", "T100101", "T100200">>
    /\ leafIds = {"100101", "100200"}
    /\ results = <<"100101", "100200">>

----------------------------------------------------------------------------
\* charts.ts parseDemographics

MaxDemoLines == 3

DemoLineSet ==
    {"Barnets f^delse}r", "Barnets k^n", "Svarandens k^n", "", "Svarsfrekvens 48%",
     "2019   32%", "Flicka   48%", "Kvinna   60%", "Annat   2%", "Total   100%",
     "Annan v}rdnadshavare   5%"}

\* the first position from p on that holds no whitespace (Len + 1 when none)
RECURSIVE skipSpaces(_, _)
skipSpaces(line, p) ==
    IF p <= Len(line) /\ IsSpace(CharAt(line, p)) THEN skipSpaces(line, p + 1) ELSE p

\* the first position from p on that holds no digit
RECURSIVE skipDigits(_, _)
skipDigits(line, p) ==
    IF p <= Len(line) /\ IsDigit(CharAt(line, p)) THEN skipDigits(line, p + 1) ELSE p

\* parseInt(digits, 10)
RECURSIVE parseInt(_)
parseInt(digits) ==
    IF digits = "" THEN 0
    ELSE 10 * parseInt(SubSeq(digits, 1, Len(digits) - 1)) + DigitValue(CharAt(digits, Len(digits)))

\* \s{2,}(\d+)\s*% at position p
kvRest(line, p) ==
    /\ IsSpace(CharAt(line, p)) /\ IsSpace(CharAt(line, p + 1))
    /\ skipDigits(line, skipSpaces(line, p)) > skipSpaces(line, p)
    /\ CharAt(line, skipSpaces(line, skipDigits(line, skipSpaces(line, p)))) = "%"

\* line.match(/^\s*(.+?)\s{2,}(\d+)\s*%/): the greedy leading whitespace, then
\* the shortest key; key and value as the code reads them
kvMatch(line) ==
    LET lead == skipSpaces(line, 1) - 1
        starts == {s0 \in 0..lead : \E e \in (s0 + 1)..Len(line) : kvRest(line, e + 1)}
    IN  IF starts = {} THEN [matched |-> FALSE, key |-> "", value |-> 0]
        ELSE LET s0 == CHOOSE x \in starts : \A y \in starts : y <= x
                 ends == {e \in (s0 + 1)..Len(line) : kvRest(line, e + 1)}
                 e == CHOOSE x \in ends : \A y \in ends : x <= y
                 q == skipSpaces(line, e + 1)
             IN  [matched |-> TRUE,
                  key |-> Trim(SubSeq(line, s0 + 1, e)),
                  value |-> parseInt(SubSeq(line, q, skipDigits(line, q) - 1))]

\* /^\d{4}$/
isYearKey(key) == Len(key) = 4 /\ \A k \in 1..4 : IsDigit(CharAt(key, k))

\* /^non.bin/ on the lower-cased key
startsNonBin(lower) ==
    StartsWith(lower, "non") /\ Len(lower) >= 7 /\ SubSeq(lower, 5, 7) = "bin"

\* /^(flicka|pojke|annat|annan|ej bin|non.bin)/i
validChild(key) ==
    LET lower == ToLower(key)
    IN  \/ StartsWith(lower, "flicka") \/ StartsWith(lower, "pojke")
        \/ StartsWith(lower, "annat") \/ StartsWith(lower, "annan")
        \/ StartsWith(lower, "ej bin") \/ startsNonBin(lower)

\* /^(kvinna|man|annat|annan|ej bin|non.bin)/i
validParent(key) ==
    LET lower == ToLower(key)
    IN  \/ StartsWith(lower, "kvinna") \/ StartsWith(lower, "man")
        \/ StartsWith(lower, "annat") \/ StartsWith(lower, "annan")
        \/ StartsWith(lower, "ej bin") \/ startsNonBin(lower)

isBirthYearHeader(lower) ==
    Includes(lower, "f^delse}r") \/ Includes(lower, "fodelsear")
        \/ Includes(lower, "barnets f^delse}r")

isChildGenderHeader(lower) == Includes(lower, "barnets k^n") \/ Includes(lower, "barnets kon")

isParentGenderHeader(lower) ==
    Includes(lower, "svarandens k^n") \/ Includes(lower, "svarandens kon")
        \/ Includes(lower, "v}rdnadshavarens k^n")

\* c, any character, rest, somewhere in s
IncludesDot(s, c, rest) ==
    \E k \in 1..Len(s) :
        /\ CharAt(s, k) = c /\ k + 1 + Len(rest) <= Len(s)
        /\ SubSeq(s, k + 2, k + 1 + Len(rest)) = rest

\* the chart markers and section headers that end the demographics page
isStopMarker(trimmedDemo) ==
    LET lower == ToLower(trimmedDemo)
    IN  \/ startsWithEllipsis(trimmedDemo)
        \/ Includes(lower, "svarsfrekvens") \/ Includes(lower, "normer och v")
        \/ IncludesDot(lower, "h", "gst andel") \/ IncludesDot(lower, "k", "nsuppdelad")
        \/ Includes(lower, "detta diagram") \/ Includes(lower, "resultat per fr")
        \/ Includes(lower, "viktigaste")

\* mapping[key] = value
put(mapping, key, value) ==
    [k \in DOMAIN mapping \cup {key} |-> IF k = key THEN value ELSE mapping[k]]

\* one iteration of the loop over the lines
DemoLine ==
    /\ demoPc = "scan"
    /\ demoIdx <= Len(demoLines)
    /\ \E kv \in {kvMatch(demoLines[demoIdx])} :
       LET line == demoLines[demoIdx]
           lower == ToLower(line)
           trimmedDemo == Trim(line)
       IN  IF isBirthYearHeader(lower)
           THEN /\ inBirthYear' = TRUE /\ inChildGender' = FALSE /\ inParentGender' = FALSE
                /\ UNCHANGED demographics
           ELSE IF isChildGenderHeader(lower)
           THEN /\ inBirthYear' = FALSE /\ inChildGender' = TRUE /\ inParentGender' = FALSE
                /\ UNCHANGED demographics
           ELSE IF isParentGenderHeader(lower)
           THEN /\ inBirthYear' = FALSE /\ inChildGender' = FALSE /\ inParentGender' = TRUE
                /\ UNCHANGED demographics
           ELSE IF /\ Len(trimmedDemo) > 0
                   /\ inBirthYear \/ inChildGender \/ inParentGender
                   /\ isStopMarker(trimmedDemo)
           THEN /\ inBirthYear' = FALSE /\ inChildGender' = FALSE /\ inParentGender' = FALSE
                /\ UNCHANGED demographics
           ELSE IF trimmedDemo = "" \/ ~kv.matched
           THEN UNCHANGED <<inBirthYear, inChildGender, inParentGender, demographics>>
           ELSE IF inBirthYear /\ isYearKey(kv.key)
           THEN /\ demographics' = [demographics EXCEPT !.birthYearDistribution =
                                        put(@, kv.key, kv.value)]
                /\ UNCHANGED <<inBirthYear, inChildGender, inParentGender>>
           ELSE IF inChildGender
           THEN IF validChild(kv.key)
                THEN /\ demographics' = [demographics EXCEPT !.childGenderDistribution =
                                             put(@, kv.key, kv.value)]
                     /\ UNCHANGED <<inBirthYear, inChildGender, inParentGender>>
                ELSE /\ inChildGender' = FALSE
                     /\ UNCHANGED <<inBirthYear, inParentGender, demographics>>
           ELSE IF inParentGender
           THEN IF validParent(kv.key)
                THEN /\ demographics' = [demographics EXCEPT !.parentGenderDistribution =
                                             put(@, kv.key, kv.value)]
                     /\ UNCHANGED <<inBirthYear, inChildGender, inParentGender>>
                ELSE /\ inParentGender' = FALSE
                     /\ UNCHANGED <<inBirthYear, inChildGender, demographics>>
           ELSE UNCHANGED <<inBirthYear, inChildGender, inParentGender, demographics>>
    /\ demoIdx' = demoIdx + 1
    /\ UNCHANGED <<demoLines, demoPc>>
    /\ UNCHANGED notDemo

\* return demographics
DemoReturn ==
    /\ demoPc = "scan"
    /\ demoIdx > Len(demoLines)
    /\ demoPc' = "done"
    /\ UNCHANGED <<demoLines, demoIdx, inBirthYear, inChildGender, inParentGender,
                   demographics>>
    /\ UNCHANGED notDemo

DemoInit ==
    /\ demoLines \in SeqsUpTo(DemoLineSet, MaxDemoLines)
    /\ demoIdx = 1
    /\ inBirthYear = FALSE /\ inChildGender = FALSE /\ inParentGender = FALSE
    /\ demographics = [birthYearDistribution |-> <<>>, childGenderDistribution |-> <<>>,
                       parentGenderDistribution |-> <<>>]
    /\ demoPc = "scan"
    /\ IdleBut("demo")

DemoNext == DemoLine \/ DemoReturn

SpecDemo == DemoInit /\ [][DemoNext]_vars

\* the category a header line opens; "" for other lines
headerCategory(line) ==
    LET lower == ToLower(line)
    IN  IF isBirthYearHeader(lower) THEN "birthYear"
        ELSE IF isChildGenderHeader(lower) THEN "childGender"
        ELSE IF isParentGenderHeader(lower) THEN "parentGender"
        ELSE ""

validFor(category, key) ==
    CASE category = "birthYear" -> isYearKey(key)
      [] category = "childGender" -> validChild(key)
      [] category = "parentGender" -> validParent(key)

\* before line n: a header h, after it a key-value line j whose key is not
\* valid for the header's category, and no header from h to n
InvalidKeySeen(n) ==
    \E h \in 1..(n - 1) : \E j \in (h + 1)..(n - 1) :
        /\ headerCategory(demoLines[h]) # ""
        /\ \A m \in (h + 1)..n : m <= Len(demoLines) => headerCategory(demoLines[m]) = ""
        /\ kvMatch(demoLines[j]).matched
        /\ ~validFor(headerCategory(demoLines[h]), kvMatch(demoLines[j]).key)

\* C10: once a key-value line whose key is not valid for the active category
\* (birth year, child gender or respondent gender) is seen, the category is
\* closed: no later line adds an entry to any mapping until a new header.
C10_ClosedAfterInvalidKey ==
    [][(demoPc = "scan" /\ demoIdx <= Len(demoLines) /\ InvalidKeySeen(demoIdx))
          => demographics' = demographics]_vars

ChildGenderKeys == {"flicka", "pojke", "annat", "annan"}
ParentGenderKeys == {"kvinna", "man", "annat", "annan", "ej bin{r"}
NonBinaryLabels == {"ej bin{r", "non-bin{r", "non bin{r", "icke-bin{r"}

\* C11: every key stored in a Demographics mapping belongs to its category's
\* closed key set: four-digit years; Flicka, Pojke, Annat, Annan or a
\* non-binary label; Kvinna, Man, Annat, Annan, Ej binär (letter case aside).
C11_ClosedKeySets ==
    /\ \A k \in DOMAIN demographics.birthYearDistribution : isYearKey(k)
    /\ \A k \in DOMAIN demographics.childGenderDistribution :
          ToLower(k) \in ChildGenderKeys \cup NonBinaryLabels
    /\ \A k \in DOMAIN demographics.parentGenderDistribution :
          ToLower(k) \in ParentGenderKeys \cup NonBinaryLabels

----------------------------------------------------------------------------
\* charts.ts parseResponseDistributions

MaxDistLines == 3

DistLineSet ==
    {"Resultat per fr}ga",
     "~mitt barn trivs p} f^rskolan  35%  58%",
     "Jag k{nner mig trygg med allt  7%  33%  51%  7%",
     "~jag {r n^jd  45%  50%",
     "och i skolan  9%",
     "K^nsuppdelad  55%",
     "Inst{mmer inte alls  Varken eller  Vet inte",
     ""}

\* the means of the table parser, in insertion order
MeansMapSet == {<<>>, <<[key |-> "mitt barn trivs", value |-> 452]>>}

\* line.replace(/\s+/g, "")
RECURSIVE removeSpaces(_)
removeSpaces(s) ==
    IF s = "" THEN ""
    ELSE IF IsSpace(CharAt(s, 1)) THEN removeSpaces(SubSeq(s, 2, Len(s)))
    ELSE CharAt(s, 1) \o removeSpaces(SubSeq(s, 2, Len(s)))

isLegendLine(line) ==
    LET stripped == ToLower(removeSpaces(line))
    IN  /\ \/ Includes(stripped, "inst{mmer") \/ Includes(stripped, "instammer")
           \/ Includes(stripped, "inst{mmerintealls")
           \/ Includes(stripped, "instammerintealls")
        /\ Includes(stripped, "vetinte") \/ Includes(stripped, "vetej")
        /\ Includes(stripped, "varkeneller") \/ Includes(stripped, "varken")

\* /^Resultat per fr.ga$/i
resultatPerFragaRe(trimmed) ==
    /\ Len(trimmed) = 18
    /\ StartsWith(ToLower(trimmed), "resultat per fr")
    /\ EndsWith(ToLower(trimmed), "ga")

\* the stacked bar section start
isStackedBarStart(trimmed) ==
    \/ /\ Includes(trimmed, "Detta diagram visar resultatet f")
       /\ Includes(trimmed, "r fr")
       /\ Includes(trimmed, "gorna")
    \/ resultatPerFragaRe(trimmed)

\* /K.nsuppdelad/i, /Viktigaste\s+fr/i, /H.gst andel/i
isOtherSection(trimmed) ==
    LET lower == ToLower(trimmed)
    IN  \/ IncludesDot(lower, "k", "nsuppdelad")
        \/ IncludesSpaced(lower, "viktigaste", "fr")
        \/ IncludesDot(lower, "h", "gst andel")

\* where the first match of /\d+%/ starts; 0 when there is none
firstPctStart(l) ==
    LET hits == {p \in 1..Len(l) :
                    IsDigit(CharAt(l, p)) /\ CharAt(l, skipDigits(l, p)) = "%"}
    IN  IF hits = {} THEN 0 ELSE CHOOSE p \in hits : \A h \in hits : p <= h

\* /\d+%/.test(l)
hasPct(l) == firstPctStart(l) # 0

\* l.replace(/\d+%.*/, "").trim()
textBeforePct(l) ==
    IF hasPct(l) THEN Trim(SubSeq(l, 1, firstPctStart(l) - 1)) ELSE Trim(l)

\* l.match(/\d+%/g) mapped through parsePct, from position p on
RECURSIVE pctMatches(_, _)
pctMatches(l, p) ==
    IF p > Len(l) THEN <<>>
    ELSE IF IsDigit(CharAt(l, p)) /\ CharAt(l, skipDigits(l, p)) = "%"
    THEN <<parseInt(SubSeq(l, p, skipDigits(l, p) - 1))>>
             \o pctMatches(l, skipDigits(l, p) + 1)
    ELSE pctMatches(l, p + 1)

\* l.replace(/\d+%/g, ""), from position p on
RECURSIVE removePcts(_, _)
removePcts(l, p) ==
    IF p > Len(l) THEN ""
    ELSE IF IsDigit(CharAt(l, p)) /\ CharAt(l, skipDigits(l, p)) = "%"
    THEN removePcts(l, skipDigits(l, p) + 1)
    ELSE CharAt(l, p) \o removePcts(l, p + 1)

\* the test that ends the continuation lines of a question
isNextQuestion(l) ==
    \/ startsWithEllipsis(l)
    \/ l = ""
    \/ Len(textBeforePct(l)) >= 15 /\ hasPct(l)

\* the loop over lines from..from+3 that collects a question's text and
\* percentages; j is the line it is at
RECURSIVE collectQuestion(_, _, _, _, _, _)
collectQuestion(lns, from, j, questionText, allPcts, lastLine) ==
    IF j > Min(from + 3, Len(lns))
    THEN [questionText |-> questionText, allPcts |-> allPcts, lastLine |-> lastLine]
    ELSE LET l == Trim(lns[j])
             textPart == Trim(removePcts(l, 1))
         IN  IF j > from /\ isNextQuestion(l)
             THEN [questionText |-> questionText, allPcts |-> allPcts,
                   lastLine |-> lastLine]
             ELSE collectQuestion(lns, from, j + 1,
                      IF Len(textPart) > 3
                      THEN questionText \o (IF questionText # "" THEN " " ELSE "")
                               \o textPart
                      ELSE questionText,
                      allPcts \o pctMatches(l, 1), j)

\* meansMap.get(questionText), then the first key that is a prefix of the
\* question text or has it as a prefix
RECURSIVE fuzzyMean(_, _, _)
fuzzyMean(map, questionText, k) ==
    IF k > Len(map) THEN Null
    ELSE IF StartsWith(questionText, map[k].key) \/ StartsWith(map[k].key, questionText)
    THEN map[k].value
    ELSE fuzzyMean(map, questionText, k + 1)

lookupMean(map, questionText) ==
    IF \E k \in 1..Len(map) : map[k].key = questionText
    THEN map[CHOOSE k \in 1..Len(map) : map[k].key = questionText].value
    ELSE fuzzyMean(map, questionText, 1)

\* one iteration of the loop over the lines
DistLine ==
    /\ distPc = "scan"
    /\ distIdx <= Len(distLines)
    /\ \E q \in {collectQuestion(distLines, distIdx, distIdx, "", <<>>, distIdx)} :
       LET line == distLines[distIdx]
           trimmed == Trim(line)
           questionText == cleanQuestionText(q.questionText)
       IN  IF isStackedBarStart(trimmed)
           THEN /\ inStackedBarSection' = TRUE
                /\ distIdx' = distIdx + 1
                /\ UNCHANGED <<distResults, seen>>
           ELSE IF inStackedBarSection /\ (isLegendLine(line) \/ isOtherSection(trimmed))
           THEN /\ inStackedBarSection' = FALSE
                /\ distIdx' = distIdx + 1
                /\ UNCHANGED <<distResults, seen>>
           ELSE IF ~inStackedBarSection
           THEN /\ distIdx' = distIdx + 1
                /\ UNCHANGED <<inStackedBarSection, distResults, seen>>
           ELSE IF /\ ~startsWithEllipsis(trimmed)
                   /\ Len(textBeforePct(trimmed)) < 15 \/ ~hasPct(trimmed)
           THEN /\ distIdx' = distIdx + 1
                /\ UNCHANGED <<inStackedBarSection, distResults, seen>>
           ELSE /\ distIdx' = q.lastLine + 1
                /\ UNCHANGED inStackedBarSection
                /\ IF Len(q.allPcts) >= 2 /\ Len(questionText) > 10
                      /\ questionText \notin seen
                   THEN /\ seen' = seen \cup {questionText}
                        /\ \E assigned \in assignCategories(q.allPcts,
                                               lookupMean(meansMap, questionText)) :
                              distResults' = Append(distResults,
                                  [questionText |-> questionText, pcts |-> assigned])
                   ELSE UNCHANGED <<distResults, seen>>
    /\ UNCHANGED <<distLines, meansMap, distPc>>
    /\ UNCHANGED notDist

\* return results
DistReturn ==
    /\ distPc = "scan"
    /\ distIdx > Len(distLines)
    /\ distPc' = "done"
    /\ UNCHANGED <<distLines, meansMap, distIdx, inStackedBarSection, distResults, seen>>
    /\ UNCHANGED notDist

DistInit ==
    /\ distLines \in SeqsUpTo(DistLineSet, MaxDistLines)
    /\ meansMap \in MeansMapSet
    /\ distIdx = 1
    /\ inStackedBarSection = FALSE
    /\ distResults = <<>>
    /\ seen = {}
    /\ distPc = "scan"
    /\ IdleBut("dist")

DistNext == DistLine \/ DistReturn

SpecDist == DistInit /\ [][DistNext]_vars

\* a legend line or a gender-split / ranking header
isEndLine(line) == isLegendLine(line) \/ isOtherSection(Trim(line))

\* line n lies after a start marker with no end line from the marker to n
InStackedBars(n) ==
    \E st \in 1..(n - 1) :
        /\ isStackedBarStart(Trim(distLines[st]))
        /\ \A m \in (st + 1)..n : ~isEndLine(distLines[m])

\* line n gives text or percentages to the question collected from it
Contributes(n) ==
    \/ hasPct(Trim(distLines[n]))
    \/ Len(Trim(removePcts(Trim(distLines[n]), 1))) > 3

\* C12: a distribution is emitted only from lines after a stacked-bar start
\* marker and before the next legend line or gender-split / ranking header:
\* an end line and the lines after it give no text or percentages to any
\* distribution until another start marker is read.
C12_OnlyStackedBarLines ==
    [][Len(distResults') > Len(distResults) =>
          \A n \in distIdx..(distIdx' - 1) : Contributes(n) => InStackedBars(n)]_vars

----------------------------------------------------------------------------
\* utils.ts cleanQuestionText as a function of its argument

MaxCleanLen == 4

CleanChars == {Ellipsis, ".", " ", "x", "A"}

RECURSIVE Join(_)
Join(chars) == IF chars = <<>> THEN "" ELSE Head(chars) \o Join(Tail(chars))

\* n copies of s
RECURSIVE Repeat(_, _)
Repeat(s, n) ==
    IF n = 0 THEN ""
    ELSE IF n % 2 = 0 THEN Repeat(s \o s, n \div 2)
    ELSE s \o Repeat(s, n - 1)

\* texts longer than the 500 characters kept
LongTexts == {Repeat("x", 501), Repeat("x", 499) \o " y", Repeat("xxxx ", 101)}

\* cleanQuestionText(raw)
CleanCall ==
    /\ cleanPc = "raw"
    /\ cleanedOnce' = cleanQuestionText(rawText)
    /\ cleanPc' = "once"
    /\ UNCHANGED <<rawText, cleanedTwice>>
    /\ UNCHANGED notClean

\* cleanQuestionText of an already cleanedOnce text
CleanAgain ==
    /\ cleanPc = "once"
    /\ cleanedTwice' = cleanQuestionText(cleanedOnce)
    /\ cleanPc' = "twice"
    /\ UNCHANGED <<rawText, cleanedOnce>>
    /\ UNCHANGED notClean

CleanInit ==
    /\ rawText \in {Join(chars) : chars \in SeqsUpTo(CleanChars, MaxCleanLen)} \cup LongTexts
    /\ cleanedOnce = ""
    /\ cleanedTwice = ""
    /\ cleanPc = "raw"
    /\ IdleBut("clean")

CleanNext == CleanCall \/ CleanAgain

SpecClean == CleanInit /\ [][CleanNext]_vars

\* C13: question-text normalization is idempotent:
\* cleanQuestionText(cleanQuestionText(s)) = cleanQuestionText(s) for every s.
C13_Idempotent == cleanPc = "twice" => cleanedTwice = cleanedOnce

----------------------------------------------------------------------------
\* the question-area label of the rows of the table parsers

CanonicalAreas ==
    {"Trygghet och trivsel", "Utveckling och l{rande", "Inflytande",
     "Relation och kommunikation", "Helhetsomd^me"}

\* C15: every row emitted by the table parser carries a question-area label
\* that is one of the five canonical names, wherever in the document the row
\* occurs.
C15_CanonicalArea ==
    \A k \in 1..Len(rows) : rows[k].questionArea \in CanonicalAreas

----------------------------------------------------------------------------
\* tables.ts parseMeanRowsScandinfo

UpperChar(c) ==
    IF IsLower(c) THEN CharAt(UpperLetters, IndexOf(LowerLetters, c)) ELSE c

RECURSIVE ToUpper(_)
ToUpper(s) ==
    IF s = "" THEN "" ELSE UpperChar(CharAt(s, 1)) \o ToUpper(SubSeq(s, 2, Len(s)))

\* s.toLowerCase().startsWith(prefix), for a lower-case prefix
StartsWithI(s, prefix) ==
    Len(prefix) <= Len(s) /\ ToLower(SubSeq(s, 1, Len(prefix))) = prefix

\* quality factor -> area, in insertion order
scandInfoAreaMap ==
    <<[factor |-> "HELHET", area |-> "Helhetsomd^me"],
      [factor |-> "TRIVSEL", area |-> "Trygghet och trivsel"],
      [factor |-> "TRYGGHET", area |-> "Trygghet och trivsel"],
      [factor |-> "BEM@TANDE", area |-> "Relation och kommunikation"],
      [factor |-> "PEDAGOGISK HANDLEDNING", area |-> "Utveckling och l{rande"],
      [factor |-> "PEDAGOGISK PROCESS", area |-> "Utveckling och l{rande"],
      [factor |-> "S[KERHET", area |-> "Trygghet och trivsel"],
      [factor |-> "DELAKTIGHET/INFLYTANDE", area |-> "Inflytande"],
      [factor |-> "DELAKTIGHET/INFYTANDE", area |-> "Inflytande"],
      [factor |-> "MILJ@", area |-> "Helhetsomd^me"],
      [factor |-> "F@RSKOLEMILJ@", area |-> "Helhetsomd^me"],
      [factor |-> "M]LTIDER", area |-> "Helhetsomd^me"],
      [factor |-> "F@RTROENDE", area |-> "Helhetsomd^me"],
      [factor |-> "SERVICE VIA TELEFON", area |-> "Relation och kommunikation"],
      [factor |-> "SERVICE VIA TELEFONV[XELN", area |-> "Relation och kommunikation"]>>

\* scandInfoAreaMap[factorName]; "" when the key is absent
scandArea(factorName) ==
    LET hits == {k \in 1..Len(scandInfoAreaMap) : scandInfoAreaMap[k].factor = factorName}
    IN  IF hits = {} THEN "" ELSE scandInfoAreaMap[CHOOSE k \in hits : TRUE].area

\* /^NKI,?\s+HELHET/i: the position after the match, 0 when there is none
nkiHelhetEnd(trimmed) ==
    LET afterNki == IF CharAt(trimmed, 4) = "," THEN 5 ELSE 4
        h == skipSpaces(trimmed, afterNki)
    IN  IF /\ StartsWithI(trimmed, "nki") /\ h > afterNki
           /\ StartsWithI(SubSeq(trimmed, h, Len(trimmed)), "helhet")
        THEN h + 6 ELSE 0

\* \s+(\d+) at position p: the number and the position after it (0: no match)
numberAt(t, p) ==
    LET d == skipSpaces(t, p)
        e == skipDigits(t, d)
    IN  IF p >= 1 /\ d > p /\ e > d
        THEN [found |-> TRUE, value |-> parseInt(SubSeq(t, d, e - 1)), end |-> e]
        ELSE [found |-> FALSE, value |-> Null, end |-> 0]

\* [A-ZÅÄÖ/ ]
factorNameChar(c) == IsUpper(c) \/ c = "/" \/ c = " "

\* /^([A-Z...][A-Z.../ ]+?)\s{2,}(\d+)\s+(\d+)/
factorMatch(trimmed) ==
    LET ends == {n \in 2..Len(trimmed) :
                    /\ IsUpper(CharAt(trimmed, 1))
                    /\ \A k \in 2..n : factorNameChar(CharAt(trimmed, k))
                    /\ skipSpaces(trimmed, n + 1) >= n + 3
                    /\ numberAt(trimmed, n + 1).found
                    /\ numberAt(trimmed, numberAt(trimmed, n + 1).end).found}
        n == CHOOSE e \in ends : \A o \in ends : e <= o
    IN  IF ends = {} THEN [found |-> FALSE, name |-> "", value |-> Null, ref |-> Null]
        ELSE [found |-> TRUE, name |-> Trim(SubSeq(trimmed, 1, n)),
              value |-> numberAt(trimmed, n + 1).value,
              ref |-> numberAt(trimmed, numberAt(trimmed, n + 1).end).value]

\* the last position at or before p that holds no digit / no space
RECURSIVE backDigits(_, _)
backDigits(t, p) == IF p >= 1 /\ IsDigit(CharAt(t, p)) THEN backDigits(t, p - 1) ELSE p

RECURSIVE backSpaces(_, _)
backSpaces(t, p) == IF p >= 1 /\ IsSpace(CharAt(t, p)) THEN backSpaces(t, p - 1) ELSE p

\* meanValueRe = /(\d[.,]\d)\s+(\d+)\s+(\d+)\s*$/ on a trimmed line: the
\* matched mean in tenths and the (1-based) place of its last digit
meanValueRe(trimmed) ==
    LET a == backDigits(trimmed, Len(trimmed))
        b == backSpaces(trimmed, a)
        c == backDigits(trimmed, b)
        d == backSpaces(trimmed, c)
    IN  IF /\ a < Len(trimmed) /\ b < a /\ c < b /\ d < c
           /\ IsDigit(CharAt(trimmed, d)) /\ CharAt(trimmed, d - 1) \in {".", ","}
           /\ IsDigit(CharAt(trimmed, d - 2))
        THEN [found |-> TRUE,
              meanVal |-> 10 * DigitValue(CharAt(trimmed, d - 2))
                             + DigitValue(CharAt(trimmed, d)),
              mean |-> SubSeq(trimmed, d - 2, d)]
        ELSE [found |-> FALSE, meanVal |-> Null, mean |-> ""]

\* line.match(/\s{3,}(\d{1,2}\s{2,})/).index: 0-based; Null when no match
pctStartIndex(line) ==
    LET hits == {p \in 1..Len(line) :
                    /\ IsSpace(CharAt(line, p)) /\ ~IsSpace(CharAt(line, p - 1))
                    /\ skipSpaces(line, p) - p >= 3
                    /\ skipDigits(line, skipSpaces(line, p)) - skipSpaces(line, p) \in {1, 2}
                    /\ IsSpace(CharAt(line, skipDigits(line, skipSpaces(line, p))))
                    /\ IsSpace(CharAt(line, skipDigits(line, skipSpaces(line, p)) + 1))}
    IN  IF hits = {} THEN Null ELSE (CHOOSE p \in hits : \A h \in hits : p <= h) - 1

\* String.prototype.lastIndexOf, 1-based; 0 when absent
LastIndexOf(s, needle) ==
    LET hits == {k \in 1..(Len(s) - Len(needle) + 1) :
                    SubSeq(s, k, k + Len(needle) - 1) = needle}
    IN  IF hits = {} THEN 0 ELSE CHOOSE k \in hits : \A h \in hits : k >= h

\* s.replace(/(\s+\d{1,2})+\s*$/, "").trim() for a trimmed s
RECURSIVE stripTrailingNumbers(_)
stripTrailingNumbers(s) ==
    LET a == backDigits(s, Len(s))
    IN  IF Len(s) - a \in {1, 2} /\ IsSpace(CharAt(s, a))
        THEN stripTrailingNumbers(TrimEnd(SubSeq(s, 1, a)))
        ELSE s

\* the text of a per-question data row, before the pending text is joined
scandQuestionText(line, mean) ==
    IF pctStartIndex(line) # Null
    THEN Trim(SubSeq(line, 1, pctStartIndex(line)))
    ELSE stripTrailingNumbers(Trim(SubSeq(line, 1, LastIndexOf(line, mean) - 1)))

\* upperTrimmed.startsWith(factor) && /^\s+\d+\s*$/.test(trimmed.substring(factor.length))
isFactorHeaderOf(trimmed, factor) ==
    LET rest == SubSeq(trimmed, Len(factor) + 1, Len(trimmed))
        d == skipSpaces(rest, 1)
    IN  /\ Len(factor) <= Len(trimmed)
        /\ ToUpper(SubSeq(trimmed, 1, Len(factor))) = factor
        /\ d > 1 /\ skipDigits(rest, d) > d /\ skipDigits(rest, d) = Len(rest) + 1

\* the area of the first factor whose header the line is; "" when none
factorHeaderArea(trimmed) ==
    LET hits == {k \in 1..Len(scandInfoAreaMap) :
                    isFactorHeaderOf(trimmed, scandInfoAreaMap[k].factor)}
    IN  IF hits = {} THEN ""
        ELSE scandInfoAreaMap[CHOOSE k \in hits : \A h \in hits : k <= h].area

\* /^\d{1,3}\s{2,}\d{1,3}\s{2,}/
startsWithTwoNumbers(trimmed) ==
    LET e1 == skipDigits(trimmed, 1)
        d2 == skipSpaces(trimmed, e1)
        e2 == skipDigits(trimmed, d2)
    IN  /\ e1 - 1 \in 1..3 /\ d2 - e1 >= 2 /\ e2 - d2 \in 1..3
        /\ skipSpaces(trimmed, e2) - e2 >= 2

\* the lines whose text is kept as the start of a wrapped question
accumulates(trimmed) ==
    LET e == skipDigits(trimmed, 1)
    IN  /\ Len(trimmed) > 10
        /\ ~StartsWithI(trimmed, "kvalitetsfaktor")
        /\ ~(StartsWithI(trimmed, "delfr") /\ ToLower(SubSeq(trimmed, 7, 8)) = "ga")
        /\ ~StartsWithI(trimmed, "i tabellen")
        /\ ~(/\ e > 1 /\ skipSpaces(trimmed, e) > e
             /\ StartsWithI(SubSeq(trimmed, skipSpaces(trimmed, e), Len(trimmed)),
                            "scandinfo"))
        /\ ~StartsWithI(trimmed, "referens")
        /\ ~startsWithTwoNumbers(trimmed)

\* a row of the composite-index overview
indexRow(questionText, area, ref, value) ==
    [questionText |-> questionText, questionArea |-> area, meanGr |-> Null,
     meanGoteborg |-> ref, meanDistrict |-> Null, meanSchool |-> value]

\* factorName.charAt(0) + factorName.slice(1).toLowerCase()
capitalized(factorName) ==
    CharAt(factorName, 1) \o ToLower(SubSeq(factorName, 2, Len(factorName)))

\* where the loop goes on after the second "NKI, HELHET" line: idx is that
\* line, n the number of lines
afterSecondEntity_Continue(idx, n) == idx + 1

\* break
afterSecondEntity(idx, n) == n + 1

\* one iteration of the loop over the lines
ScLine ==
    /\ scPc = "scan"
    /\ scIdx <= Len(scLines)
    /\ \E f \in {factorMatch(Trim(scLines[scIdx]))} :
       \E q \in {meanValueRe(Trim(scLines[scIdx]))} :
       LET line == scLines[scIdx]
           trimmed == Trim(line)
           nkiEnd == nkiHelhetEnd(trimmed)
           nkiValue == numberAt(trimmed, nkiEnd)
           nkiReference == numberAt(trimmed, nkiValue.end)
           headerArea == factorHeaderArea(trimmed)
           pending1 == IF headerArea # "" THEN "" ELSE scPending
           area1 == IF headerArea # "" THEN headerArea ELSE scCurrentArea
           text0 == scandQuestionText(line, q.mean)
           text1 == IF pending1 # ""
                    THEN (IF Len(text0) > 3 THEN pending1 \o " " \o text0 ELSE pending1)
                    ELSE text0
           questionText == cleanQuestionText(text1)
       IN  IF trimmed = ""
           THEN /\ scIdx' = scIdx + 1
                /\ UNCHANGED <<scRows, scCurrentArea, scPending, inNkiSection,
                               pastFirstNki, inQuestionSection, sectionCount>>
           ELSE IF nkiEnd # 0
           THEN /\ sectionCount' = sectionCount + 1
                /\ IF sectionCount = 0
                   THEN /\ inNkiSection' = TRUE
                        /\ scRows' = IF nkiValue.found
                                     THEN Append(scRows,
                                              indexRow("NKI Helhetsbed^mning", "Helhetsomd^me",
                                                       nkiReference.value, nkiValue.value))
                                     ELSE scRows
                        /\ scIdx' = scIdx + 1
                   ELSE /\ scIdx' = afterSecondEntity(scIdx, Len(scLines))
                        /\ UNCHANGED <<inNkiSection, scRows>>
                /\ UNCHANGED <<scCurrentArea, scPending, pastFirstNki, inQuestionSection>>
           ELSE IF inNkiSection /\ ~pastFirstNki /\ f.found
           THEN /\ scRows' = IF f.value >= 0 /\ f.value <= 100 /\ scandArea(f.name) # ""
                             THEN Append(scRows,
                                      indexRow("NKI " \o capitalized(f.name),
                                               scandArea(f.name), f.ref, f.value))
                             ELSE scRows
                /\ scIdx' = scIdx + 1
                /\ UNCHANGED <<scCurrentArea, scPending, inNkiSection, pastFirstNki,
                               inQuestionSection, sectionCount>>
           ELSE IF /\ inNkiSection /\ ~pastFirstNki
                   /\ \/ StartsWithI(trimmed, "medelindex")
                      \/ /\ StartsWithI(trimmed, "antal")
                         /\ skipSpaces(trimmed, 6) > 6
                         /\ StartsWithI(SubSeq(trimmed, skipSpaces(trimmed, 6),
                                               Len(trimmed)), "svarande")
           THEN /\ pastFirstNki' = TRUE
                /\ scIdx' = scIdx + 1
                /\ UNCHANGED <<scRows, scCurrentArea, scPending, inNkiSection,
                               inQuestionSection, sectionCount>>
           ELSE IF ~(pastFirstNki /\ sectionCount = 1)
           THEN /\ scIdx' = scIdx + 1
                /\ UNCHANGED <<scRows, scCurrentArea, scPending, inNkiSection,
                               pastFirstNki, inQuestionSection, sectionCount>>
           ELSE IF StartsWithI(trimmed, "kvalitetsfaktor")
           THEN /\ inQuestionSection' = TRUE
                /\ scIdx' = scIdx + 1
                /\ UNCHANGED <<scRows, scCurrentArea, scPending, inNkiSection,
                               pastFirstNki, sectionCount>>
           ELSE /\ scCurrentArea' = area1
                /\ scIdx' = scIdx + 1
                /\ UNCHANGED <<inNkiSection, pastFirstNki, inQuestionSection, sectionCount>>
                /\ IF ~inQuestionSection
                   THEN scPending' = pending1 /\ UNCHANGED scRows
                   ELSE IF q.found
                   THEN IF q.meanVal >= 10 /\ q.meanVal <= 100
                        THEN /\ scPending' = ""
                             /\ scRows' = IF Len(questionText) > 5
                                          THEN Append(scRows,
                                                   indexRow(questionText, area1, Null,
                                                            q.meanVal))
                                          ELSE scRows
                        ELSE scPending' = pending1 /\ UNCHANGED scRows
                   ELSE /\ UNCHANGED scRows
                        /\ scPending' =
                               IF accumulates(trimmed) /\ headerArea = ""
                               THEN (IF pending1 # "" THEN pending1 \o " " \o trimmed
                                     ELSE trimmed)
                               ELSE pending1
    /\ UNCHANGED <<scLines, scPc>>
    /\ UNCHANGED notScand

\* return { rows, historicalYears: [] }
ScReturn ==
    /\ scPc = "scan"
    /\ scIdx > Len(scLines)
    /\ scPc' = "done"
    /\ UNCHANGED <<scLines, scIdx, scRows, scCurrentArea, scPending, inNkiSection,
                   pastFirstNki, inQuestionSection, sectionCount>>
    /\ UNCHANGED notScand

MaxScLines == 3

ScLineSet ==
    {"NKI, HELHET  72  73",
     "TRIVSEL  83  85",
     "MEDELINDEX  80",
     "KVALITETSFAKTOR  Medelv{rde  Ingen }sikt  Ej svar",
     "Trivsel  83",
     "Hur n^jd {r du med f^rskolan   63  28  9  7,7  0  1",
     "Hur trivs ditt barn p} f^rskolan och",
     "~med personalen 60 30 10 8,1  0  1"}

\* the first line of a question that wraps: none, a short one, one that
\* makes the joined text longer than 500 characters
WrappedTexts == {"", "Hur trivs ditt barn p} f^rskolan och", Repeat("x", 499)}

\* a report of one entity: the overview, then the question table; the
\* parameters tell which of the optional lines are there
scandReport(withFactor, withHeader, wrapped, withSecond) ==
    <<"NKI, HELHET  72  73">>
        \o (IF withFactor THEN <<"TRIVSEL  83  85">> ELSE <<>>)
        \o <<"MEDELINDEX  80", "KVALITETSFAKTOR  Medelv{rde  Ingen }sikt  Ej svar">>
        \o (IF withHeader THEN <<"Trivsel  83">> ELSE <<>>)
        \o (IF wrapped # "" THEN <<wrapped>> ELSE <<>>)
        \o <<"~med personalen 60 30 10 8,1  0  1">>
        \o (IF withSecond
            THEN <<"NKI, HELHET  64  73",
                   "Hur n^jd {r du med f^rskolan   63  28  9  7,7  0  1">>
            ELSE <<>>)

ScInit ==
    /\ \/ scLines \in SeqsUpTo(ScLineSet, MaxScLines)
       \/ \E withFactor, withHeader, withSecond \in BOOLEAN, wrapped \in WrappedTexts :
             scLines = scandReport(withFactor, withHeader, wrapped, withSecond)
    /\ scIdx = 1
    /\ scRows = <<>>
    /\ scCurrentArea = ""
    /\ scPending = ""
    /\ inNkiSection = FALSE
    /\ pastFirstNki = FALSE
    /\ inQuestionSection = FALSE
    /\ sectionCount = 0
    /\ scPc = "scan"
    /\ IdleBut("scand")

ScNext == ScLine \/ ScReturn

SpecScand == ScInit /\ [][ScNext]_vars

\* the texts of the emitted rows
scTexts == {scRows[k].questionText : k \in 1..Len(scRows)}

\* the marks of a normalized text that the rows are checked for
Normalized(t) == ~IsUpper(CharAt(t, 1)) /\ ~startsWithEllipsis(t) /\ Len(t) <= 500

----------------------------------------------------------------------------
\* tables.ts parseTables, called on several documents in one process

MaxSessionLines == 2

SessionLineSet ==
    {"Normer och v{rden",
     "GR  G^teborg  Omr}de  Skola  2024  2023",
     "~mitt barn trivs  4.01  4.02  4.03  4.04  4.05  4.06"}

\* the documents of a session, with the format detectFormat gives them
SessionDocs ==
    {[format |-> "5point", lines |-> l] : l \in SeqsUpTo(SessionLineSet, MaxSessionLines)}
        \cup {[format |-> "scandinfo", lines |-> scandReport(f, f, "", ~f)] : f \in BOOLEAN}

\* let currentArea = "": the area a parser starts with, whatever the area the
\* previous call ended with
entryArea_Kept(previous) == previous

entryArea(previous) == ""

\* the parser the current call runs has returned
ParserDone ==
    /\ callNo >= 1
    /\ IF documents[callNo].format = "5point" THEN p5Pc = "done" ELSE scPc = "done"

\* { means: result.rows, historicalYears: result.historicalYears }
parseTablesResult ==
    IF documents[callNo].format = "5point"
    THEN [means |-> rows, historicalYears |-> historicalYears]
    ELSE [means |-> scRows, historicalYears |-> <<>>]

\* parseTables(text): the previous call has returned; the parser of the
\* document's format is entered, its locals declared anew
ParseTables ==
    /\ callNo < Len(documents)
    /\ callNo = 0 \/ ParserDone
    /\ callNo' = callNo + 1
    /\ outputs' = IF callNo = 0 THEN outputs ELSE Append(outputs, parseTablesResult)
    /\ IF documents[callNo + 1].format = "5point"
       THEN /\ lines' = documents[callNo + 1].lines
            /\ i' = 0
            /\ rows' = <<>>
            /\ currentArea' = entryArea(currentArea)
            /\ historicalYears' = <<>>
            /\ columnLayout' = "gr-first"
            /\ inTable' = FALSE
            /\ pendingQuestionText' = ""
            /\ doneWithTables' = FALSE
            /\ p5Pc' = "start"
            /\ UNCHANGED scandVars
       ELSE /\ scLines' = documents[callNo + 1].lines
            /\ scIdx' = 1
            /\ scRows' = <<>>
            /\ scCurrentArea' = entryArea(scCurrentArea)
            /\ scPending' = ""
            /\ inNkiSection' = FALSE
            /\ pastFirstNki' = FALSE
            /\ inQuestionSection' = FALSE
            /\ sectionCount' = 0
            /\ scPc' = "scan"
            /\ UNCHANGED p5Vars
    /\ UNCHANGED documents
    /\ UNCHANGED notTables

\* a document, another document, the first document again
SessionInit ==
    /\ \E a, b \in SessionDocs : documents = <<a, b, a>>
    /\ callNo = 0
    /\ outputs = <<>>
    /\ IdleBut("session")

SessionNext == ParseTables \/ P5FirstPass \/ P5Line \/ P5Return \/ ScLine \/ ScReturn

SpecSession == SessionInit /\ [][SessionNext]_vars

----------------------------------------------------------------------------
\* utils.ts main, parseSinglePdf, parseXlsReport

MaxReports == 2
MaxUnits == 2

\* parse_error of a workbook without units
NoUnitData == "No unit data (too few respondents)"

\* `${err}` of the exception a parse ends with
ErrorText == "Error: parse failed"

\* the selected rows of pdf_reports: the file, the units parseXlsFile finds in
\* a workbook, and the columns parsed_at and parse_error; a row that was
\* parsed before is selected under --force only
SelectedReports ==
    LET files == {[localPath |-> "r.pdf", units |-> 0]}
                     \cup {[localPath |-> "r.xls", units |-> u] : u \in 0..MaxUnits}
        columns == {[parsedAt |-> "null", parseError |-> "null"],
                    [parsedAt |-> "earlier", parseError |-> "null"],
                    [parsedAt |-> "earlier", parseError |-> NoUnitData]}
    IN  {[localPath |-> f.localPath, units |-> f.units,
          parsedAt |-> c.parsedAt, parseError |-> c.parseError] :
             f \in files, c \in columns}

\* the row with its two columns updated
updated(row, parsedAt, parseError) ==
    [row EXCEPT !.parsedAt = parsedAt, !.parseError = parseError]

\* units.length === 0
noUnits_Never(units) == FALSE

noUnits(units) == units = 0

\* where the loop goes on after a caught exception: idx is the row that
\* failed, n the number of rows
afterCatch_Abort(idx, n) == n + 1

afterCatch(idx, n) == idx + 1

\* parseSinglePdf returns: the report is marked parsed
MainParsePdf ==
    /\ mainPc = "loop"
    /\ rowIdx <= Len(reports)
    /\ ~isXls(reports[rowIdx].localPath)
    /\ reports' = [reports EXCEPT ![rowIdx] = updated(@, "now", "null")]
    /\ parsedCount' = parsedCount + 1
    /\ rowIdx' = rowIdx + 1
    /\ UNCHANGED <<errors, unitReports, mainPc>>
    /\ UNCHANGED notMain

\* parseXlsReport returns: without units the report is marked parsed with
\* the note; with units a unit report is created and marked parsed for each,
\* then the report itself
MainParseXls ==
    /\ mainPc = "loop"
    /\ rowIdx <= Len(reports)
    /\ isXls(reports[rowIdx].localPath)
    /\ IF noUnits(reports[rowIdx].units)
       THEN /\ reports' = [reports EXCEPT ![rowIdx] = updated(@, "now", NoUnitData)]
            /\ UNCHANGED unitReports
       ELSE /\ reports' = [reports EXCEPT ![rowIdx] = updated(@, "now", "null")]
            /\ unitReports' = unitReports + reports[rowIdx].units
    /\ parsedCount' = parsedCount + 1
    /\ rowIdx' = rowIdx + 1
    /\ UNCHANGED <<errors, mainPc>>
    /\ UNCHANGED notMain

\* the parse of the report throws, for a workbook after created of its unit
\* reports were written; the exception is caught and recorded
MainCatch ==
    /\ mainPc = "loop"
    /\ rowIdx <= Len(reports)
    /\ \E created \in 0..reports[rowIdx].units :
          /\ isXls(reports[rowIdx].localPath) \/ created = 0
          /\ created = 0 \/ created < reports[rowIdx].units
          /\ unitReports' = unitReports + created
    /\ reports' = [reports EXCEPT ![rowIdx] = updated(@, @.parsedAt, ErrorText)]
    /\ errors' = errors + 1
    /\ rowIdx' = afterCatch(rowIdx, Len(reports))
    /\ UNCHANGED <<parsedCount, mainPc>>
    /\ UNCHANGED notMain

\* the loop is over: the counts are printed
MainEnd ==
    /\ mainPc = "loop"
    /\ rowIdx > Len(reports)
    /\ mainPc' = "done"
    /\ UNCHANGED <<reports, rowIdx, parsedCount, errors, unitReports>>
    /\ UNCHANGED notMain

MainInit ==
    /\ reports \in SeqsUpTo(SelectedReports, MaxReports)
    /\ rowIdx = 1
    /\ parsedCount = 0
    /\ errors = 0
    /\ unitReports = 0
    /\ mainPc = "loop"
    /\ IdleBut("main")

MainNext == MainParsePdf \/ MainParseXls \/ MainCatch \/ MainEnd

SpecMain == MainInit /\ [][MainNext]_vars

\* the report was marked parsed in this run / has a recorded error
MarkedParsed(r) == r.parsedAt = "now"
HasError(r) == r.parseError # "null"

AtEmptyWorkbook ==
    /\ mainPc = "loop" /\ rowIdx <= Len(reports)
    /\ isXls(reports[rowIdx].localPath) /\ reports[rowIdx].units = 0

\* C18: a workbook without units is not an error: it is marked parsed with
\* the note, no unit report is created, it is counted as parsed; and the state
\* a caught exception leaves is never that state.
C18_EmptyWorkbook ==
    /\ [][AtEmptyWorkbook /\ parsedCount' # parsedCount =>
             /\ reports'[rowIdx].parsedAt = "now"
             /\ reports'[rowIdx].parseError = NoUnitData
             /\ unitReports' = unitReports
             /\ parsedCount' = parsedCount + 1 /\ errors' = errors]_vars
    /\ [][errors' # errors =>
             /\ reports'[rowIdx].parseError # NoUnitData
             /\ reports'[rowIdx].parseError # "null"]_vars

\* a batch with a workbook without units that was counted as parsed, and
\* with a report that failed
C18_Witness ==
    /\ mainPc = "done" /\ parsedCount >= 1 /\ errors >= 1
    /\ \E k \in 1..Len(reports) :
          /\ isXls(reports[k].localPath) /\ reports[k].units = 0
          /\ reports[k].parsedAt = "now" /\ reports[k].parseError = NoUnitData
    /\ \E k \in 1..Len(reports) :
          reports[k].parsedAt = "earlier" /\ reports[k].parseError = ErrorText

----------------------------------------------------------------------------
\* normalize.ts getScale, normalize; numbers are counted in hundredths

MaxTenths == 100

\* means with one decimal from 0.0 on, and means with two decimals
NormValues == {10 * v : v \in 0..MaxTenths} \cup {Null, 333, 452, 780, 7200}

NormYears == {2007, 2008, 2009, 2010, 2012, 2014, 2015, 2018, 2019, 2024}

\* "" stands for a text that is not given
NormTexts == {"", "NKI TRIVSEL", "NKI", "nKI trivsel", "mitt barn trivs"}

\* "" stands for a category that is not given
NormCategories == {"", "barn", "foralder"}

\* the scale of a year, without the category
getScale_IgnoreCategory(year, category) ==
    IF year <= 2009 THEN [min |-> 1, max |-> 3]
    ELSE IF year <= 2014 THEN [min |-> 1, max |-> 10]
    ELSE IF year <= 2018 THEN [min |-> 1, max |-> 7]
    ELSE [min |-> 1, max |-> 5]

getScale(year, category) ==
    IF year <= 2009
    THEN (IF category = "foralder" THEN [min |-> 1, max |-> 10] ELSE [min |-> 1, max |-> 3])
    ELSE IF year <= 2014 THEN [min |-> 1, max |-> 10]
    ELSE IF year <= 2018 THEN [min |-> 1, max |-> 7]
    ELSE [min |-> 1, max |-> 5]

\* Math.round(a / b) for b > 0: the nearest integer, a half goes up
MathRound(a, b) == (2 * a + b) \div (2 * b)

\* Math.round(((value - min) / (max - min)) * 100 * 100) / 100
normalize(value, year, questionText, category) ==
    IF value = Null THEN Null
    ELSE IF questionText # "" /\ StartsWith(questionText, "NKI ") THEN value
    ELSE LET scale == getScale(year, category)
         IN  MathRound((value - 100 * scale.min) * 100, scale.max - scale.min)

NormCall ==
    /\ normPc = "call"
    /\ normalized' = normalize(nValue, nYear, nText, nCategory)
    /\ normPc' = "done"
    /\ UNCHANGED <<nValue, nYear, nText, nCategory>>
    /\ UNCHANGED notNorm

NormInit ==
    /\ nValue \in NormValues
    /\ nYear \in NormYears
    /\ nText \in NormTexts
    /\ nCategory \in NormCategories
    /\ normalized = Null
    /\ normPc = "call"
    /\ IdleBut("norm")

NormNext == NormCall

SpecNorm == NormInit /\ [][NormNext]_vars

\* the scale maximum the claim gives for a year and a category
StatedMax ==
    IF nYear <= 2009 THEN (IF nCategory = "foralder" THEN 10 ELSE 3)
    ELSE IF nYear \in 2010..2014 THEN 10
    ELSE IF nYear \in 2015..2018 THEN 7
    ELSE 5

\* r is x / d rounded to an integer: no integer is nearer to x / d
IsRounded(r, x, d) == \A o \in {r - 1, r + 1} : Abs(r * d - x) <= Abs(o * d - x)

\* C19: normalize gives null for a null value, the value itself for a text that
\* starts with "NKI ", and otherwise 100 (value - 1) / (max - 1) rounded to two
\* decimals, max being 3 up to 2009 (10 for foralder), 10 for 2010-2014, 7 for
\* 2015-2018 and 5 from 2019; the minimum gives 0 and the maximum 100.
C19_Normalize ==
    normPc = "done" =>
        IF nValue = Null THEN normalized = Null
        ELSE IF StartsWith(nText, "NKI ") THEN normalized = nValue
        ELSE /\ IsRounded(normalized, (nValue - 100) * 100, StatedMax - 1)
             /\ nValue = 100 => normalized = 0
             /\ nValue = 100 * StatedMax => normalized = 10000

\* normalize(7.8, 2008, undefined, 'foralder') = 75.56, a value rounded down,
\* on the scale that the category chooses
C19_Witness ==
    /\ normPc = "done" /\ nValue = 780 /\ nYear = 2008 /\ nText = ""
    /\ nCategory = "foralder" /\ normalized = 7556

----------------------------------------------------------------------------
\* charts.ts assignCategories: the candidate the loop ends with

\* the first candidate, in the order the generator yields them, that no
\* candidate with a non-zero Likert share beats
firstBest(cs, p, m) ==
    LET valid == {j \in 1..Len(cs) : ~computeMeanIsNull(p, cs[j])}
        minimal == {j \in valid :
                       \A k \in valid : ~ScoreLess(score(p, cs[k], m), score(p, cs[j], m))}
    IN  cs[CHOOSE j \in minimal : \A k \in minimal : j <= k]

\* C20: with a mean and 1 to 5 percentages, assignCategories returns the
\* placement of minimal score among the placements with a non-zero Likert
\* share, and among the placements of equal score the first in lexicographic
\* slot order.
C20_MinimalLexFirst ==
    (/\ acPc = "done" /\ meanValue # Null /\ Len(pcts) \in 1..5
     /\ bestAssignments(combinations(6, Len(pcts), 0), pcts, meanValue) # {})
        => slots = placeBest(pcts, firstBest(combinations(6, Len(pcts), 0), pcts, meanValue))

----------------------------------------------------------------------------
\* parseMeanRowsScandinfo: the first entity only

\* the lines up to n that begin an entity's overview
entityStarts(n) == {k \in 1..n : nkiHelhetEnd(Trim(scLines[k])) # 0}

\* C21: the composite-index parser parses the first entity only: no row is
\* emitted from the second line that begins with "NKI, HELHET" or from a line
\* after it.
C21_FirstEntityOnly ==
    [][Len(scRows') > Len(scRows) => Cardinality(entityStarts(scIdx)) <= 1]_vars

\* a parse that ended with rows, of a text with a second entity whose lines
\* hold a question row
C21_Witness ==
    /\ scPc = "done"
    /\ Len(scRows) >= 2
    /\ \E k \in 1..(Len(scLines) - 1) :
          /\ Cardinality(entityStarts(k)) = 2
          /\ meanValueRe(Trim(scLines[k + 1])).found

----------------------------------------------------------------------------
\* tables.ts parseMeanRows7Point

QUESTION_AREA_PATTERNS_7POINT ==
    <<"TRYGGHET OCH GEMENSKAP", "INFORMATION OCH INFLYTANDE", "F@RUTS[TTNINGAR",
      "PEDAGOGIK", "KONTINUITET">>

\* w1 \s+ w2 \s+ w3 somewhere in s
IncludesSpaced3(s, w1, w2, w3) ==
    \E k \in 1..Len(s) :
        /\ StartsWith(SubSeq(s, k, Len(s)), w1)
        /\ IsSpace(CharAt(s, k + Len(w1)))
        /\ LET rest == TrimStart(SubSeq(s, k + Len(w1), Len(s)))
           IN  /\ StartsWith(rest, w2)
               /\ IsSpace(CharAt(rest, Len(w2) + 1))
               /\ StartsWith(TrimStart(SubSeq(rest, Len(w2) + 1, Len(rest))), w3)

\* /Resultat\s+per\s+fråga/i
resultatRe(line) == IncludesSpaced3(ToLower(line), "resultat", "per", "fr}ga")

\* /\bGR\s*$/, /regionen\s*$/i or /G.teborgs\s*$/i on the trimmed header line
grEnd(t) ==
    \/ EndsWith(t, "GR") /\ ~IsWordChar(CharAt(t, Len(t) - 2))
    \/ EndsWith(ToLower(t), "regionen")
    \/ /\ Len(t) >= 9
       /\ LET tail == ToLower(SubSeq(t, Len(t) - 8, Len(t)))
          IN  CharAt(tail, 1) = "g" /\ SubSeq(tail, 3, 9) = "teborgs"

\* the inner loop over the header lines j..last
RECURSIVE headerScan(_, _, _, _)
headerScan(lns, j, last, acc) ==
    IF j > last THEN acc
    ELSE LET ys == yearMatches(lns[j], 1)
             take == Len(ys) >= 1 /\ Len(acc.historicalYears) = 0
         IN  headerScan(lns, j + 1, last,
                        [headerFound |-> TRUE,
                         historicalYears |-> IF take THEN ys ELSE acc.historicalYears,
                         numYearColumns |-> IF take THEN Len(ys) ELSE acc.numYearColumns,
                         hasGrColumn |-> acc.hasGrColumn \/ grEnd(Trim(lns[j]))])

NoHeader ==
    [headerFound |-> FALSE, historicalYears |-> <<>>, numYearColumns |-> 0,
     hasGrColumn |-> FALSE]

\* a Göteborg line starts the header only after "Resultat per fråga"
headerStarts(saw, line) == saw /\ hasGteborg(line)

\* the loop that finds the header of the data table
RECURSIVE findHeader(_, _, _)
findHeader(lns, hIdx, sawResultatPerFraga) ==
    IF hIdx > Len(lns) THEN NoHeader
    ELSE IF resultatRe(lns[hIdx]) THEN findHeader(lns, hIdx + 1, TRUE)
    ELSE IF headerStarts(sawResultatPerFraga, lns[hIdx])
    THEN headerScan(lns, hIdx, Min(hIdx + 4, Len(lns)), NoHeader)
    ELSE findHeader(lns, hIdx + 1, sawResultatPerFraga)

\* pageFooterRe = /Rapporten\s+gäller|Varje\s+färgat\s+fält|möjliga.*allts/
pageFooterRe(t) ==
    \/ IncludesSpaced(t, "Rapporten", "g{ller")
    \/ IncludesSpaced3(t, "Varje", "f{rgat", "f{lt")
    \/ /\ Includes(t, "m^jliga")
       /\ Includes(SubSeq(t, IndexOf(t, "m^jliga") + 7, Len(t)), "allts")

\* scaleHeaderRe = /Otillräcklig.*Utmärkt|Utmärkt.*Otillräcklig/
scaleHeaderRe(t) ==
    \/ /\ Includes(t, "Otillr{cklig")
       /\ Includes(SubSeq(t, IndexOf(t, "Otillr{cklig") + 12, Len(t)), "Utm{rkt")
    \/ /\ Includes(t, "Utm{rkt")
       /\ Includes(SubSeq(t, IndexOf(t, "Utm{rkt") + 7, Len(t)), "Otillr{cklig")

\* the scale header opens the data section only after "Resultat per fråga"
opensDataSection_Always(saw, t) == scaleHeaderRe(t)

opensDataSection(saw, t) == saw /\ scaleHeaderRe(t)

\* /^\d\s+\d\s+\d\s+\d/
scaleLabelsRe(t) ==
    LET p2 == skipSpaces(t, 2)
        p3 == skipSpaces(t, p2 + 1)
        p4 == skipSpaces(t, p3 + 1)
    IN  /\ IsDigit(CharAt(t, 1)) /\ IsSpace(CharAt(t, 2))
        /\ IsDigit(CharAt(t, p2)) /\ IsSpace(CharAt(t, p2 + 1))
        /\ IsDigit(CharAt(t, p3)) /\ IsSpace(CharAt(t, p3 + 1))
        /\ IsDigit(CharAt(t, p4))

\* /^\d{4}\s+\d{4}/
twoYearsRe(t) ==
    /\ \A k \in 1..4 : IsDigit(CharAt(t, k))
    /\ IsSpace(CharAt(t, 5))
    /\ \A k \in 0..3 : IsDigit(CharAt(t, skipSpaces(t, 5) + k))

\* /\b20\d{2}\b/.test(trimmed) && /G.teborg|\bGR\b/i.test(trimmed)
columnHeaderRe(t) ==
    /\ Len(yearMatches(t, 1)) > 0
    /\ \/ hasWordGR(ToUpper(t))
       \/ LET lower == ToLower(t)
          IN  \E k \in 1..Len(lower) :
                  /\ CharAt(lower, k) = "g" /\ k + 7 <= Len(lower)
                  /\ SubSeq(lower, k + 2, k + 7) = "teborg"

\* the first area pattern the upper-cased line is or starts with; "" when none
RECURSIVE matchedArea7(_, _)
matchedArea7(upper, k) ==
    IF k > Len(QUESTION_AREA_PATTERNS_7POINT) THEN ""
    ELSE LET area == QUESTION_AREA_PATTERNS_7POINT[k]
         IN  IF upper = area \/ StartsWith(upper, area \o " ") THEN area
             ELSE matchedArea7(upper, k + 1)

\* /^Beskrivning|^Regiongemensam|^Om\s+undersökning|^Metod$|^Redovisning|^Här\s+visas/i
sectionHeaderRe(t) ==
    \/ StartsWithI(t, "beskrivning") \/ StartsWithI(t, "regiongemensam")
    \/ StartsWithI(t, "redovisning")
    \/ ToLower(t) = "metod"
    \/ /\ StartsWithI(t, "om ")
       /\ StartsWithI(TrimStart(SubSeq(t, 3, Len(t))), "unders^kning")
    \/ /\ StartsWithI(t, "h{r ")
       /\ StartsWithI(TrimStart(SubSeq(t, 4, Len(t))), "visas")

\* line.replace(/\d+\s*%/g, "   "), from position p on
RECURSIVE lineWithoutPct(_, _)
lineWithoutPct(l, p) ==
    IF p > Len(l) THEN ""
    ELSE IF IsDigit(CharAt(l, p)) /\ CharAt(l, skipSpaces(l, skipDigits(l, p))) = "%"
    THEN "   " \o lineWithoutPct(l, skipSpaces(l, skipDigits(l, p)) + 1)
    ELSE CharAt(l, p) \o lineWithoutPct(l, p + 1)

\* the matches of meanRe = /(\d[.,]\d{1,2})\b(?![\d%])/g from position k on:
\* match.index (0-based) and the value in hundredths
RECURSIVE meanMatches7(_, _)
meanMatches7(l, k) ==
    IF k > Len(l) THEN <<>>
    ELSE LET head == /\ IsDigit(CharAt(l, k)) /\ CharAt(l, k + 1) \in {".", ","}
                     /\ IsDigit(CharAt(l, k + 2))
             two == /\ head /\ IsDigit(CharAt(l, k + 3))
                    /\ ~IsWordChar(CharAt(l, k + 4)) /\ CharAt(l, k + 4) # "%"
             one == /\ head
                    /\ ~IsWordChar(CharAt(l, k + 3)) /\ CharAt(l, k + 3) # "%"
             base == 100 * DigitValue(CharAt(l, k)) + 10 * DigitValue(CharAt(l, k + 2))
         IN  IF two
             THEN <<[index |-> k - 1, value |-> base + DigitValue(CharAt(l, k + 3))]>>
                      \o meanMatches7(l, k + 4)
             ELSE IF one
             THEN <<[index |-> k - 1, value |-> base]>> \o meanMatches7(l, k + 3)
             ELSE meanMatches7(l, k + 1)

\* the matches whose value is in 1.0 .. 7.0
inRange7(matches) == SelectSeq(matches, LAMBDA mt : mt.value >= 100 /\ mt.value <= 700)

\* line.match(/\d+\s*%/).index, 0-based; Null when there is no match
pctStart7(line) ==
    LET hits == {p \in 1..Len(line) :
                    /\ IsDigit(CharAt(line, p))
                    /\ CharAt(line, skipSpaces(line, skipDigits(line, p))) = "%"}
    IN  IF hits = {} THEN Null ELSE (CHOOSE p \in hits : \A h \in hits : p <= h) - 1

\* values.slice(from), 0-based
sliceFrom(values, from) == SubSeq(values, Min(from, Len(values)) + 1, Len(values))

\* the columns of a 7-point data row
slice7Point(values, years, nyc, gr) ==
    LET len == Len(values)
        numGeo == IF gr THEN len - nyc ELSE Max(3, len - nyc)
        geoStart == IF gr THEN nyc ELSE Max(0, len - numGeo)
        histValues == SubSeq(values, 1, Min(geoStart, len))
        geoValues == sliceFrom(values, geoStart)
        geoLen == Len(geoValues)
        hist == writeHist(EmptyHist, years,
                          SubSeq(histValues, 1, Min(Len(histValues), Len(years))), 1)
    IN  IF gr
        THEN [meanGr |-> IF geoLen >= 1 THEN at(geoValues, geoLen - 1) ELSE Null,
              meanGoteborg |-> IF geoLen >= 2 THEN at(geoValues, geoLen - 2) ELSE Null,
              meanDistrict |-> IF numGeo >= 3 THEN at(geoValues, geoLen - 3) ELSE Null,
              meanSchool |-> IF Len(histValues) >= 1 THEN at(histValues, 0) ELSE Null,
              historicalMeans |-> hist]
        ELSE [meanGr |-> Null,
              meanGoteborg |-> IF geoLen >= 1 THEN at(geoValues, geoLen - 1) ELSE Null,
              meanDistrict |-> IF geoLen >= 2 THEN at(geoValues, geoLen - 2) ELSE Null,
              meanSchool |-> IF geoLen >= 3 THEN at(geoValues, geoLen - 3) ELSE Null,
              historicalMeans |-> hist]

\* the first line from la on that is not blank (Len + 1 when none)
RECURSIVE nextNonEmpty(_, _)
nextNonEmpty(lns, la) ==
    IF la <= Len(lns) /\ Trim(lns[la]) = "" THEN nextNonEmpty(lns, la + 1) ELSE la

\* a short text without digits that starts with a lower-case letter
isContinuation7(t) ==
    Len(t) >= 3 /\ Len(t) < 40 /\ ~HasDigit(t) /\ IsLower(CharAt(t, 1))

\* a look-ahead that goes on while continuation lines follow
RECURSIVE lookAhead7Point_Loop(_, _, _)
lookAhead7Point_Loop(lns, idx, qt) ==
    LET la == nextNonEmpty(lns, idx + 1)
    IN  IF la <= Len(lns) /\ isContinuation7(Trim(lns[la]))
        THEN lookAhead7Point_Loop(lns, la, cleanQuestionText(qt \o " " \o Trim(lns[la])))
        ELSE [i |-> idx, questionText |-> qt]

\* the look-ahead after a pushed row: idx the row's line, qt its question text
lookAhead7Point(lns, idx, qt) ==
    LET la == nextNonEmpty(lns, idx + 1)
    IN  IF la <= Len(lns) /\ isContinuation7(Trim(lns[la]))
        THEN [i |-> la, questionText |-> cleanQuestionText(qt \o " " \o Trim(lns[la]))]
        ELSE [i |-> idx, questionText |-> qt]

\* trimmed.split(/\s{3,}/)
RECURSIVE splitGaps(_, _)
splitGaps(s, cur) ==
    IF s = "" THEN <<cur>>
    ELSE IF StartsWith(s, "   ") THEN <<cur>> \o splitGaps(TrimStart(s), "")
    ELSE splitGaps(SubSeq(s, 2, Len(s)), cur \o CharAt(s, 1))

isColumnHeader(trimmed) ==
    LET segments == splitGaps(trimmed, "")
    IN  Len(segments) >= 2 /\ \A k \in 1..Len(segments) : Len(segments[k]) < 25

\* const lines = text.split("\n") ... the loop that finds the table header
P7FindHeader ==
    /\ p7Pc = "start"
    /\ \E header \in {findHeader(p7Lines, 1, FALSE)} :
          /\ p7Years' = header.historicalYears
          /\ numYearColumns' = header.numYearColumns
          /\ hasGrColumn' = header.hasGrColumn
          /\ p7Pc' = IF header.headerFound THEN "scan" ELSE "done"
    /\ p7Idx' = 1
    /\ UNCHANGED <<p7Lines, p7Rows, p7Area, p7Pending, inDataSection, sawResultatHeader>>
    /\ UNCHANGED notP7

\* one iteration of the scan loop, on line p7Idx (1-based)
P7Line ==
    /\ p7Pc = "scan"
    /\ p7Idx <= Len(p7Lines)
    /\ \E trimmed \in {Trim(p7Lines[p7Idx])} :
       LET line == p7Lines[p7Idx]
           area == matchedArea7(ToUpper(trimmed), 1)
           area1 == IF area # "" THEN mapAreaName(area) ELSE p7Area
       IN  IF trimmed = ""
           THEN /\ p7Idx' = p7Idx + 1
                /\ UNCHANGED <<p7Rows, p7Area, p7Pending, inDataSection, sawResultatHeader>>
           ELSE IF resultatRe(trimmed)
           THEN /\ sawResultatHeader' = TRUE
                /\ p7Idx' = p7Idx + 1
                /\ UNCHANGED <<p7Rows, p7Area, p7Pending, inDataSection>>
           ELSE IF pageFooterRe(trimmed)
           THEN /\ inDataSection' = FALSE
                /\ p7Pending' = ""
                /\ p7Idx' = p7Idx + 1
                /\ UNCHANGED <<p7Rows, p7Area, sawResultatHeader>>
           ELSE IF opensDataSection(sawResultatHeader, trimmed)
           THEN /\ inDataSection' = TRUE
                /\ p7Pending' = ""
                /\ p7Idx' = p7Idx + 1
                /\ UNCHANGED <<p7Rows, p7Area, sawResultatHeader>>
           ELSE IF scaleLabelsRe(trimmed) \/ twoYearsRe(trimmed)
           THEN /\ p7Idx' = p7Idx + 1
                /\ UNCHANGED <<p7Rows, p7Area, p7Pending, inDataSection, sawResultatHeader>>
           ELSE IF columnHeaderRe(trimmed)
                   \/ (inDataSection /\ IncludesSpaced(trimmed, "Vet", "ej"))
           THEN /\ p7Pending' = ""
                /\ p7Idx' = p7Idx + 1
                /\ UNCHANGED <<p7Rows, p7Area, inDataSection, sawResultatHeader>>
           ELSE IF sectionHeaderRe(trimmed) \/ ~inDataSection
           THEN /\ p7Area' = area1
                /\ p7Idx' = p7Idx + 1
                /\ UNCHANGED <<p7Rows, p7Pending, inDataSection, sawResultatHeader>>
           ELSE \E matches \in {inRange7(meanMatches7(lineWithoutPct(line, 1), 1))} :
                LET values == [k \in 1..Len(matches) |-> matches[k].value]
                    pctStart == pctStart7(line)
                    questionText0 ==
                        IF pctStart # Null THEN Trim(SubSeq(line, 1, pctStart))
                        ELSE Trim(SubSeq(line, 1, matches[1].index))
                    questionText1 ==
                        IF p7Pending # ""
                        THEN (IF Len(questionText0) > 3
                              THEN p7Pending \o " " \o questionText0
                              ELSE p7Pending)
                        ELSE questionText0
                    questionText == cleanQuestionText(questionText1)
                    sliced == slice7Point(values, p7Years, numYearColumns, hasGrColumn)
                    ahead == lookAhead7Point(p7Lines, p7Idx, questionText)
                IN  /\ p7Area' = area1
                    /\ UNCHANGED <<inDataSection, sawResultatHeader>>
                    /\ IF Len(values) >= 3
                       THEN /\ p7Pending' = ""
                            /\ IF Len(questionText) > 5
                               THEN /\ p7Rows' = Append(p7Rows,
                                          [questionText |-> ahead.questionText,
                                           questionArea |-> area1,
                                           meanGr |-> sliced.meanGr,
                                           meanGoteborg |-> sliced.meanGoteborg,
                                           meanDistrict |-> sliced.meanDistrict,
                                           meanSchool |-> sliced.meanSchool,
                                           historicalMeans |-> sliced.historicalMeans])
                                    /\ p7Idx' = ahead.i + 1
                               ELSE /\ p7Rows' = p7Rows
                                    /\ p7Idx' = p7Idx + 1
                       ELSE /\ p7Rows' = p7Rows
                            /\ p7Idx' = p7Idx + 1
                            /\ p7Pending' =
                                  IF /\ Len(values) = 0 /\ Len(trimmed) > 10
                                     /\ ~scaleHeaderRe(trimmed)
                                     /\ ~isColumnHeader(trimmed)
                                     /\ (IsUpper(CharAt(trimmed, 1)) \/ p7Pending # "")
                                  THEN (IF p7Pending # ""
                                        THEN p7Pending \o " " \o trimmed
                                        ELSE trimmed)
                                  ELSE p7Pending
    /\ UNCHANGED <<p7Lines, p7Years, numYearColumns, hasGrColumn, p7Pc>>
    /\ UNCHANGED notP7

\* return { rows, historicalYears }
P7Return ==
    /\ p7Pc = "scan"
    /\ p7Idx > Len(p7Lines)
    /\ p7Pc' = "done"
    /\ UNCHANGED <<p7Lines, p7Idx, p7Rows, p7Area, p7Years, numYearColumns, hasGrColumn,
                   p7Pending, inDataSection, sawResultatHeader>>
    /\ UNCHANGED notP7

----------------------------------------------------------------------------
\* Documents for the 7-point parser

MaxP7Lines == 3
MaxTail == 2

P7LineSet == {
    "",
    "Resultat per fr}ga",
    "2016  Skola  Centrum  G^teborg",
    "Otillr{cklig    Utm{rkt",
    "Barnet trivs i f^rskolan  12%  5,1  5,2  5,35",
    "Rapporten g{ller f^rskolan",
    "PEDAGOGIK" }

\* an overview table that precedes the "Resultat per fråga" page
SummaryTable ==
    <<"2018  2017  Centrum  G^teborg  GR",
      "Otillr{cklig    Utm{rkt",
      "Helhetsintryck av f^rskolan  6,1  6,2  6,3">>

\* the lines that may follow a data row
TailLines == {
    "",
    "matematik",
    "och naturvetenskap",
    "samt teknik och skapande i olika former varje dag",
    "Personalen bem^ter mitt barn",
    "Mitt barn trivs bra  5,5  5,6  5,7" }

sevenPointReport(withSummary, withGr, tail) ==
    (IF withSummary THEN SummaryTable ELSE <<>>)
        \o <<"Resultat per fr}ga",
             IF withGr THEN "2016  2015  G^teborg  GR" ELSE "2016  Skola  Centrum  G^teborg",
             "1  2  3  4  5  6  7  Vet ej",
             "Otillr{cklig    Utm{rkt",
             "Barnet utvecklas i  12 %  5,1  5,2  5,35  5,4">>
        \o tail

P7Init ==
    /\ \/ p7Lines \in SeqsUpTo(P7LineSet, MaxP7Lines)
       \/ \E withSummary \in BOOLEAN, withGr \in BOOLEAN, tail \in SeqsUpTo(TailLines, MaxTail) :
             p7Lines = sevenPointReport(withSummary, withGr, tail)
    /\ p7Idx = 0
    /\ p7Rows = <<>>
    /\ p7Area = ""
    /\ p7Years = <<>>
    /\ numYearColumns = 0
    /\ hasGrColumn = FALSE
    /\ p7Pending = ""
    /\ inDataSection = FALSE
    /\ sawResultatHeader = FALSE
    /\ p7Pc = "start"
    /\ IdleBut("p7")

P7Next == P7FindHeader \/ P7Line \/ P7Return

Spec7Point == P7Init /\ [][P7Next]_vars

\* the lines before k that match "Resultat per fråga"
resultatBefore(k) == {r \in 1..(k - 1) : resultatRe(p7Lines[r])}

\* the scan appends a row
P7EmitsRow == Len(p7Rows') > Len(p7Rows)

\* C22: the 7-point parser takes the year columns and the region column from
\* lines that follow a "Resultat per fråga" line only, and emits no row from a
\* line that precedes the first such line.
C22_AfterResultatPerFraga ==
    /\ [](p7Years # <<>> =>
             \E j \in 1..Len(p7Lines) :
                 yearMatches(p7Lines[j], 1) = p7Years /\ resultatBefore(j) # {})
    /\ [](hasGrColumn =>
             \E j \in 1..Len(p7Lines) :
                 grEnd(Trim(p7Lines[j])) /\ resultatBefore(j) # {})
    /\ [][P7EmitsRow => resultatBefore(p7Idx) # {}]_vars

C22_Witness ==
    /\ p7Pc = "done"
    /\ Len(p7Rows) >= 1
    /\ p7Years # <<>>
    /\ \E r \in 1..Len(p7Lines) :
          /\ resultatBefore(r + 1) = {r}
          /\ \E h \in 1..(r - 1) :
                /\ hasGteborg(p7Lines[h]) /\ grEnd(Trim(p7Lines[h]))
                /\ Len(yearMatches(p7Lines[h], 1)) >= 1
                /\ yearMatches(p7Lines[h], 1) # p7Years
          /\ \E d \in 1..(r - 1) :
                Len(inRange7(meanMatches7(lineWithoutPct(p7Lines[d], 1), 1))) >= 3


\* a line that contains no digit and starts with a lower-case letter
looksContinued(t) == ~HasDigit(t) /\ IsLower(CharAt(t, 1))

\* how many of the lines k, k + 1, ... look continued, counted up to cap
RECURSIVE continuedRun(_, _)
continuedRun(k, cap) ==
    IF cap = 0 \/ k > Len(p7Lines) \/ ~looksContinued(Trim(p7Lines[k])) THEN 0
    ELSE 1 + continuedRun(k + 1, cap - 1)

----------------------------------------------------------------------------
\* The download stage and the parse stage, run one after another over the
\* table pdf_reports, with parseSinglePdf step by step.
\*
\* downloaded_at and parsed_at hold the number of the run that set them, 0 for
\* NULL; parse_error holds "null" for NULL.  A stored row carries its table,
\* the run that wrote it and, for gender_split, the extractor it came from.

MaxDbReports == 2
MaxRuns == 3
MaxSplits == 1

ReportIds == 1..MaxDbReports

\* `Download failed: ${err}`
DownloadFailed == "Download failed: Error"

ReportTables ==
    {"question_means", "question_responses", "gender_split", "important_questions",
     "unit_means"}

\* the ids in ascending order that satisfy keep
RECURSIVE orderedIds(_, _)
orderedIds(keep(_), id) ==
    IF id > MaxDbReports THEN <<>>
    ELSE (IF keep(id) THEN <<id>> ELSE <<>>) \o orderedIds(keep, id + 1)

\* WHERE pr.downloaded_at IS NULL
selectsForDownload(r) == r.downloaded_at = 0

\* the WHERE clause of the parse stage with --force passing every report
selectsForParse_ForceAll(r, force) ==
    /\ r.downloaded_at # 0
    /\ r.local_path # "null"
    /\ ~Includes(r.pdf_url, "#")
    /\ force \/ (r.parsed_at = 0 /\ (r.parse_error = "null" \/ r.parsed_at # 0))

\* the WHERE clause of the parse stage
selectsForParse(r, force) ==
    /\ r.downloaded_at # 0
    /\ r.local_path # "null"
    /\ ~Includes(r.pdf_url, "#")
    /\ force \/ r.parsed_at = 0
    /\ r.parse_error = "null" \/ r.parsed_at # 0

\* the report the loop is at
currentId == selectedIds[rowPos]

\* the download stage starts: the reports to download are selected
DownloadMain ==
    /\ stage = "idle"
    /\ runNo < MaxRuns
    /\ runNo' = runNo + 1
    /\ stage' = "download"
    /\ selectedIds' = orderedIds(LAMBDA id : selectsForDownload(pdfReports[id]), 1)
    /\ rowPos' = 1
    /\ UNCHANGED <<pdfReports, storedRows, forceFlag, pdfPc, layoutSplits, coordSplits,
                   extractorCalls>>
    /\ UNCHANGED notDb

\* one report of the download loop: downloadPdf returns and the file is
\* written, or the attempt throws and the error is recorded
DownloadRow ==
    /\ stage = "download"
    /\ rowPos <= Len(selectedIds)
    /\ \E ok \in BOOLEAN :
          pdfReports' =
              IF ok
              THEN [pdfReports EXCEPT ![currentId].downloaded_at = runNo,
                                      ![currentId].local_path = "report.pdf"]
              ELSE [pdfReports EXCEPT ![currentId].parse_error = DownloadFailed]
    /\ rowPos' = rowPos + 1
    /\ UNCHANGED <<storedRows, stage, runNo, forceFlag, selectedIds, pdfPc, layoutSplits,
                   coordSplits, extractorCalls>>
    /\ UNCHANGED notDb

DownloadEnd ==
    /\ stage = "download"
    /\ rowPos > Len(selectedIds)
    /\ stage' = "idle"
    /\ UNCHANGED <<pdfReports, storedRows, runNo, forceFlag, selectedIds, rowPos, pdfPc,
                   layoutSplits, coordSplits, extractorCalls>>
    /\ UNCHANGED notDb

\* the parse stage starts, with or without --force
ParseMain ==
    /\ stage = "idle"
    /\ runNo < MaxRuns
    /\ runNo' = runNo + 1
    /\ stage' = "parse"
    /\ \E force \in BOOLEAN :
          /\ forceFlag' = force
          /\ selectedIds' =
                 orderedIds(LAMBDA id : selectsForParse(pdfReports[id], force), 1)
    /\ rowPos' = 1
    /\ pdfPc' = "next"
    /\ UNCHANGED <<pdfReports, storedRows, layoutSplits, coordSplits, extractorCalls>>
    /\ UNCHANGED notDb

\* what the five DELETE statements leave of the report's rows
afterDelete_Kept(stored) == stored

afterDelete(stored) == {row \in stored : row.table \notin ReportTables}

\* parseSinglePdf begins: the report's rows are deleted
PdfDelete ==
    /\ stage = "parse"
    /\ pdfPc = "next"
    /\ rowPos <= Len(selectedIds)
    /\ storedRows' = [storedRows EXCEPT ![currentId] = afterDelete(@)]
    /\ pdfPc' = "deleted"
    /\ layoutSplits' = <<>>
    /\ coordSplits' = <<>>
    /\ extractorCalls' = <<>>
    /\ UNCHANGED <<pdfReports, stage, runNo, forceFlag, selectedIds, rowPos>>
    /\ UNCHANGED notDb

\* a gender-split row names a question that the table questions holds or not
SplitRows == {"known question", "unknown question"}

\* the three extractions return; layoutSplits is what parseGenderSplitsFromLayout
\* finds in the layout text, coordSplits what parseGenderSplits finds in the
\* text items
PdfExtract ==
    /\ stage = "parse"
    /\ pdfPc = "deleted"
    /\ layoutSplits' \in SeqsUpTo(SplitRows, MaxSplits)
    /\ coordSplits' \in SeqsUpTo(SplitRows, MaxSplits)
    /\ pdfPc' = "extracted"
    /\ UNCHANGED <<pdfReports, storedRows, stage, runNo, forceFlag, selectedIds, rowPos,
                   extractorCalls>>
    /\ UNCHANGED notDb

storedRow(table, source) == [table |-> table, run |-> runNo, source |-> source]

\* steps 1 to 3: metadata, means and response distributions are stored
PdfStoreMeans ==
    /\ stage = "parse"
    /\ pdfPc = "extracted"
    /\ storedRows' = [storedRows EXCEPT ![currentId] =
                          @ \cup {storedRow("report_metadata", "tables"),
                                  storedRow("question_means", "tables"),
                                  storedRow("question_responses", "layout")}]
    /\ pdfPc' = "means"
    /\ UNCHANGED <<pdfReports, stage, runNo, forceFlag, selectedIds, rowPos, layoutSplits,
                   coordSplits, extractorCalls>>
    /\ UNCHANGED notDb

\* the extractors that ran and the rows to store, with their extractor
genderSplits_Both(layout, coord) ==
    [calls |-> <<"layout", "coord">>,
     rows |-> [k \in 1..Len(layout) |-> [question |-> layout[k], source |-> "layout"]]
                  \o [k \in 1..Len(coord) |-> [question |-> coord[k], source |-> "coord"]]]

genderSplits(layout, coord) ==
    IF Len(layout) = 0
    THEN [calls |-> <<"layout", "coord">>,
          rows |-> [k \in 1..Len(coord) |-> [question |-> coord[k], source |-> "coord"]]]
    ELSE [calls |-> <<"layout">>,
          rows |-> [k \in 1..Len(layout) |-> [question |-> layout[k], source |-> "layout"]]]

\* step 4: the gender splits whose question exists are stored
PdfStoreGender ==
    /\ stage = "parse"
    /\ pdfPc = "means"
    /\ LET splits == genderSplits(layoutSplits, coordSplits)
       IN  /\ extractorCalls' = splits.calls
           /\ storedRows' = [storedRows EXCEPT ![currentId] =
                  @ \cup {storedRow("gender_split", splits.rows[k].source) :
                             k \in {j \in 1..Len(splits.rows) :
                                       splits.rows[j].question = "known question"}}]
    /\ pdfPc' = "gender"
    /\ UNCHANGED <<pdfReports, stage, runNo, forceFlag, selectedIds, rowPos, layoutSplits,
                   coordSplits>>
    /\ UNCHANGED notDb

\* steps 5 and 6 and the final UPDATE: important questions and unit means are
\* stored and the report is marked parsed
PdfMarkParsed ==
    /\ stage = "parse"
    /\ pdfPc = "gender"
    /\ storedRows' = [storedRows EXCEPT ![currentId] =
                          @ \cup {storedRow("important_questions", "layout"),
                                  storedRow("unit_means", "layout")}]
    /\ pdfReports' = [pdfReports EXCEPT ![currentId].parsed_at = runNo,
                                        ![currentId].parse_error = "null"]
    /\ rowPos' = rowPos + 1
    /\ pdfPc' = "next"
    /\ UNCHANGED <<stage, runNo, forceFlag, selectedIds, layoutSplits, coordSplits,
                   extractorCalls>>
    /\ UNCHANGED notDb

\* an extraction or a store step throws: main catches, records the error and
\* goes on with the next report
PdfCatch ==
    /\ stage = "parse"
    /\ pdfPc \in {"deleted", "extracted", "means", "gender"}
    /\ pdfReports' = [pdfReports EXCEPT ![currentId].parse_error = ErrorText]
    /\ rowPos' = rowPos + 1
    /\ pdfPc' = "next"
    /\ UNCHANGED <<storedRows, stage, runNo, forceFlag, selectedIds, layoutSplits,
                   coordSplits, extractorCalls>>
    /\ UNCHANGED notDb

ParseEnd ==
    /\ stage = "parse"
    /\ pdfPc = "next"
    /\ rowPos > Len(selectedIds)
    /\ stage' = "idle"
    /\ UNCHANGED <<pdfReports, storedRows, runNo, forceFlag, selectedIds, rowPos, pdfPc,
                   layoutSplits, coordSplits, extractorCalls>>
    /\ UNCHANGED notDb

\* after the crawl: no report is downloaded or parsed
DbInit ==
    /\ pdfReports = [id \in ReportIds |->
                        [pdf_url |-> "report" \o CharAt(Digits, id + 1) \o ".pdf",
                         downloaded_at |-> 0, local_path |-> "null",
                         parsed_at |-> 0, parse_error |-> "null"]]
    /\ storedRows = [id \in ReportIds |-> {}]
    /\ stage = "idle"
    /\ runNo = 0
    /\ forceFlag = FALSE
    /\ selectedIds = <<>>
    /\ rowPos = 1
    /\ pdfPc = "next"
    /\ layoutSplits = <<>>
    /\ coordSplits = <<>>
    /\ extractorCalls = <<>>
    /\ IdleBut("db")

DbNext ==
    \/ DownloadMain \/ DownloadRow \/ DownloadEnd
    \/ ParseMain \/ PdfDelete \/ PdfExtract \/ PdfStoreMeans \/ PdfStoreGender
    \/ PdfMarkParsed \/ PdfCatch \/ ParseEnd

SpecDb == DbInit /\ [][DbNext]_vars

\* C24: for each PDF the layout-text gender-split extractor runs first and the
\* coordinate-based extractor runs only if the layout-text extractor returned
\* no rows; when the layout-text extractor returns a row, no coordinate-based
\* row is stored for the report.
C24_LayoutFirst ==
    [][pdfPc = "means" /\ pdfPc' = "gender" =>
          /\ extractorCalls'[1] = "layout"
          /\ (\E k \in 1..Len(extractorCalls') : extractorCalls'[k] = "coord")
                 <=> Len(layoutSplits) = 0
          /\ Len(layoutSplits) >= 1 =>
                 \A row \in storedRows'[currentId] :
                     row.table = "gender_split" => row.source = "layout"]_vars

\* both extractors find a row with a stored question; the layout row is stored
C24_Witness ==
    /\ pdfPc = "gender"
    /\ layoutSplits = <<"known question">>
    /\ coordSplits = <<"known question">>
    /\ \E row \in storedRows[currentId] : row.table = "gender_split"

\* the report has parse_error set while parsed_at is null
Stuck(id) == pdfReports[id].parse_error # "null" /\ pdfReports[id].parsed_at = 0

\* C28: once a report has parse_error set while parsed_at is null it stays so,
\* and no later run of the parse stage selects it, with or without --force; a
\* successful download does not clear parse_error.
C28_NeverSelectedAgain ==
    [][\A id \in ReportIds :
          Stuck(id) =>
              /\ pdfReports'[id].parse_error = pdfReports[id].parse_error
              /\ pdfReports'[id].parsed_at = 0
              /\ stage' = "parse" /\ runNo' # runNo =>
                     \A k \in 1..Len(selectedIds') : selectedIds'[k] # id]_vars

\* a forced parse run that leaves out a downloaded report whose download first
\* failed, and one whose first parse failed
C28_Witness ==
    /\ stage = "parse"
    /\ forceFlag
    /\ \E id \in ReportIds :
          /\ Stuck(id)
          /\ pdfReports[id].downloaded_at # 0
          /\ pdfReports[id].parse_error = DownloadFailed
          /\ \A k \in 1..Len(selectedIds) : selectedIds[k] # id

\* the rows of the five tables that an earlier run stored for the report
EarlierRows(id) ==
    {row \in storedRows[id] : row.table \in ReportTables /\ row.run < runNo}

\* C29: parseSinglePdf deletes the report's rows of the five tables before an
\* extraction runs; when an extraction or a store step then fails during a
\* forced re-parse the rows stored before are gone, and the report keeps its
\* earlier parsed_at together with the new parse_error.
C29_DeleteBeforeExtract ==
    /\ [](stage = "parse" /\ pdfPc # "next" => EarlierRows(currentId) = {})
    /\ [][(pdfPc # "next" /\ pdfPc' = "next") =>
             LET id == selectedIds[rowPos]
             IN  pdfReports'[id].parse_error # "null" =>
                     /\ {row \in storedRows'[id] :
                            row.table \in ReportTables /\ row.run < runNo'} = {}
                     /\ pdfReports'[id].parsed_at = pdfReports[id].parsed_at
                     /\ pdfReports'[id].parse_error = ErrorText]_vars

\* a forced re-parse has failed: the report was parsed by an earlier run, has
\* the error, and none of its rows
C29_Witness ==
    /\ forceFlag
    /\ \E id \in ReportIds :
          /\ pdfReports[id].parsed_at # 0
          /\ pdfReports[id].parsed_at < runNo
          /\ pdfReports[id].parse_error = ErrorText
          /\ {row \in storedRows[id] : row.table \in ReportTables} = {}

----------------------------------------------------------------------------
\* xls.ts parseSheet
\*
\* shData is the array sheetToArray returns, data[k] being shData[k + 1]; a
\* row holds its columns 0, 1, 2 and 6 (c2 is the number parseNum reads from
\* the cell, Null for an empty cell).  Line breaks inside a cell are left out.

\* /^Fr\s+\d+$/i
frLabelRe(frLabel) ==
    /\ StartsWithI(frLabel, "fr")
    /\ IsSpace(CharAt(frLabel, 3))
    /\ skipSpaces(frLabel, 3) <= Len(frLabel)
    /\ skipDigits(frLabel, skipSpaces(frLabel, 3)) = Len(frLabel) + 1

\* the pair (data[i], data[i + 1]) passes both tests of the loop
validPair(data, idx) ==
    /\ frLabelRe(Trim(data[idx + 2].c0))
    /\ Trim(data[idx + 2].c1) # ""

\* the entry pushed for the pair
meansEntry(data, idx) ==
    [questionText |-> cleanQuestionText(Trim(data[idx + 2].c1)),
     meanValue |-> data[idx + 2].c2,
     indexValue |-> data[idx + 1].c2]

\* where the loop goes on after a pair that fails a test: idx is the pair's
\* index, n the number of rows
afterInvalidPair_Skip(idx, n) == idx + 2

\* break
afterInvalidPair(idx, n) == n

\* const data = sheetToArray(ws) ... up to the loop
SheetStart ==
    /\ shPc = "start"
    /\ IF Len(shData) < 10 \/ Trim(shData[1].c6) = ""
       THEN shResult' = "null" /\ shPc' = "done" /\ shI' = shI
       ELSE shResult' = shResult /\ shPc' = "loop" /\ shI' = 9
    /\ UNCHANGED <<shData, shMeans>>
    /\ UNCHANGED notSheet

\* one iteration of the loop, on the pair at shI
SheetPair ==
    /\ shPc = "loop"
    /\ shI < Len(shData) - 1
    /\ IF validPair(shData, shI)
       THEN /\ shMeans' = Append(shMeans, meansEntry(shData, shI))
            /\ shI' = shI + 2
       ELSE /\ shMeans' = shMeans
            /\ shI' = afterInvalidPair(shI, Len(shData))
    /\ UNCHANGED <<shData, shResult, shPc>>
    /\ UNCHANGED notSheet

\* if (means.length === 0) return null; return { ... means ... }
SheetReturn ==
    /\ shPc = "loop"
    /\ ~(shI < Len(shData) - 1)
    /\ shResult' = IF Len(shMeans) = 0 THEN "null" ELSE "unit data"
    /\ shPc' = "done"
    /\ UNCHANGED <<shData, shI, shMeans>>
    /\ UNCHANGED notSheet

MaxBodyRows == 6

SheetRow(c0, c1, c2) == [c0 |-> c0, c1 |-> c1, c2 |-> c2, c6 |-> ""]

\* rows 0 to 8 of a data sheet
SheetHead(unitName) ==
    <<[c0 |-> "", c1 |-> "", c2 |-> Null, c6 |-> unitName],
      SheetRow("Antal svar", "", 23), SheetRow("Centrum", "", Null)>>
        \o [k \in 1..6 |-> SheetRow("", "", Null)]

BodyRows ==
    {SheetRow("", "Index", 71),
     SheetRow("Fr 1", "Trivs ditt barn i f^rskolan?", 28),
     SheetRow(" fr  12 ", "~[r du n^jd?", Null),
     SheetRow("Fr 3", "  ", 25),
     SheetRow("Fr 4:1", "Hur n^jd {r du?", 26)}

SheetInit ==
    /\ \E unitName \in {"Solrosen", " "}, body \in SeqsUpTo(BodyRows, MaxBodyRows) :
          shData = SheetHead(unitName) \o body
    /\ shI = 0
    /\ shMeans = <<>>
    /\ shResult = "none"
    /\ shPc = "start"
    /\ IdleBut("sheet")

SheetNext == SheetStart \/ SheetPair \/ SheetReturn

SpecSheet == SheetInit /\ [][SheetNext]_vars

\* the pairs start at data[9], data[11], ...: pair j is at index 9 + 2 j
pairAt(j) == 9 + 2 * j
pairExists(j) == pairAt(j) < Len(shData) - 1

\* the number of valid pairs before the first pair that fails or is missing
RECURSIVE validRun(_)
validRun(j) ==
    IF pairExists(j) /\ validPair(shData, pairAt(j)) THEN validRun(j + 1) ELSE j

\* C25: the means list of parseSheet is the maximal run of consecutive valid
\* (index row, question row) pairs that starts at row 9, in order; no pair
\* after a failing pair contributes.
C25_MaximalValidRun ==
    shPc = "done" /\ shResult # "null" =>
        /\ Len(shMeans) = validRun(0)
        /\ \A j \in 0..(validRun(0) - 1) : shMeans[j + 1] = meansEntry(shData, pairAt(j))

\* a sheet with a valid pair, then a failing pair, then a valid pair
C25_Witness ==
    /\ shPc = "done"
    /\ shResult = "unit data"
    /\ \E j \in 0..MaxBodyRows :
          /\ j > validRun(0)
          /\ pairExists(j)
          /\ validPair(shData, pairAt(j))


\* C26: for a list of N percentages, 1 <= N <= 6, and any mean or none,
\* assignCategories returns exactly N non-null slots whose values are the
\* input percentages, none dropped and none duplicated, also when some or all
\* of the percentages are 0.
C26_AllPlaced ==
    (acPc = "done" /\ Len(pcts) >= 1 /\ Len(pcts) <= 6) =>
        /\ Len(NonNullSlots(slots)) = Len(pcts)
        /\ NonNullSlots(slots) = pcts


\* the line is a table header, a page header, an area header or an
\* "Årsjämförelsen" line
leavesTable(line) ==
    \/ pageHeaderRe(Trim(line))
    \/ matchedArea(Trim(line), 1) # ""
    \/ StartsWith(Trim(line), "]rsj{mf^relsen")

\* C27: throughout the 5-point parser's scan the pending question text is
\* empty whenever the parser is outside a table, and a row is emitted only from
\* a line that comes after a table header line with no page-header line,
\* area-header line or "Årsjämförelsen" line between that header and the row.
C27_RowsInsideTable ==
    /\ [](p5Pc = "scan" /\ ~inTable => pendingQuestionText = "")
    /\ [][EmitsRow =>
             /\ inTable
             /\ \E h \in 1..(i - 1) :
                   /\ isTableHeader(lines[h])
                   /\ \A k \in (h + 1)..(i - 1) : ~leavesTable(lines[k])]_vars

----------------------------------------------------------------------------
\* part_011 downloadPdf
\*
\* dlHistory holds what each fetch so far came to: a response with its status
\* and, for an OK status, whether reading its body succeeded and the body; or
\* an error thrown by fetch.  Every fetch and every sleep is taken to complete.

MAX_RETRIES == 3

StatusCodes == {200, 204, 404, 429, 500, 503}
Bodies == {"%PDF-a", "%PDF-b"}

\* res.ok
isOk(status) == status >= 200 /\ status <= 299

FetchOutcomes ==
    {[kind |-> "response", status |-> st, bodyRead |-> rd, body |-> b] :
         st \in StatusCodes, rd \in BOOLEAN, b \in Bodies}
        \cup {[kind |-> "error", status |-> 0, bodyRead |-> FALSE, body |-> "%PDF-a"]}

\* what the loop does after a failed attempt when it gives up at once
afterFailure_GiveUp(attempt, retries) == "throw"

\* if (attempt < retries) { ... continue; } throw ...
afterFailure(attempt, retries) == IF attempt < retries THEN "retry" ELSE "throw"

\* one iteration of the loop: fetch, then return, retry or throw
DlAttempt ==
    /\ dlPc = "loop"
    /\ dlAttempt <= MAX_RETRIES
    /\ \E outcome \in FetchOutcomes :
          /\ outcome.kind = "response" /\ ~isOk(outcome.status) => outcome.bodyRead = FALSE
          /\ outcome.bodyRead = FALSE => outcome.body = "%PDF-a"
          /\ dlHistory' = Append(dlHistory, outcome)
          /\ IF outcome.kind = "response" /\ isOk(outcome.status) /\ outcome.bodyRead
                /\ ~(outcome.status = 429 \/ outcome.status >= 500)
             THEN /\ dlOutcome' = "returned"
                  /\ dlBody' = outcome.body
                  /\ dlPc' = "done"
                  /\ dlAttempt' = dlAttempt
             ELSE IF afterFailure(dlAttempt, MAX_RETRIES) = "retry"
             THEN /\ dlAttempt' = dlAttempt + 1
                  /\ UNCHANGED <<dlOutcome, dlBody, dlPc>>
             ELSE /\ dlOutcome' = "thrown"
                  /\ dlPc' = "done"
                  /\ UNCHANGED <<dlAttempt, dlBody>>
    /\ UNCHANGED notDl

DlInit ==
    /\ dlHistory = <<>>
    /\ dlAttempt = 1
    /\ dlOutcome = "none"
    /\ dlBody = ""
    /\ dlPc = "loop"
    /\ IdleBut("dl")

\* the last iteration returns or throws, so the statement after the loop is not
\* reached
DlNext == DlAttempt

SpecDownload == DlInit /\ [][DlNext]_vars /\ WF_vars(DlNext)

\* the attempts whose response has an OK status / an OK status and a body that
\* was read
okResponses == {k \in 1..Len(dlHistory) :
                   dlHistory[k].kind = "response" /\ isOk(dlHistory[k].status)}
readResponses == {k \in okResponses : dlHistory[k].bodyRead}

first(S) == CHOOSE k \in S : \A j \in S : k <= j

====
